---------------------------- MODULE Spec2Model ----------------------------
(***************************************************************************)
(* A model of the EmailValidator repository: the deterministic email      *)
(* hygiene engine (core/email_hygeine_engine.py), the array processor     *)
(* (core/processor.py) and the two duplicate engines (app/array_dedupe.py *)
(* and app/dedupe.py).                                                    *)
(*                                                                         *)
(* A Python str is a sequence of one-character strings.  A character that *)
(* has no ASCII spelling is written as a token: "ZW" stands for one of    *)
(* the zero-width characters U+200B/U+200C/U+200D/U+2060 and "FWAT" for   *)
(* the full-width commercial at U+FF20.                                   *)
(***************************************************************************)
EXTENDS Integers, Sequences, FiniteSets, TLC

VARIABLES
    pc,          \* position of the driver that calls the operation under study
    email,       \* the str handed to the engine
    norm1,       \* normalize_email_raw(email)[0]
    norm2,       \* normalize_email_raw(norm1)[0]
    options,     \* exclude_role_accounts, provider_aware_dedup and the
                 \* reference sets of the caller
    result,      \* the DeterministicResult of validate_email_deterministic
    decision,    \* the dict of EmailProcessor._map_result_to_format
    variant,     \* the address with dots inserted or a tag appended
    keys,        \* the canonical keys of email and of variant
    file_data,   \* the sheets of the loaded file
    entries,     \* the list of EmailEntry objects, updated in place
    processing,  \* what process_email_entries returned
    dedupe_results,  \* what deduplicate_entries returned
    cleaned_data,    \* what update_dataframes_with_cleaned_emails returned
    final_data,      \* what blank_duplicate_rows returned
    processed_rows,  \* the row dicts handed to deduplicate_records
    records_report,  \* what deduplicate_records returned
    final_sheets,    \* what _apply_deduplication returned
    features,        \* what extract_features returned for the current row
    normalized,      \* what normalize_email returned for the current row
    attempt,         \* the attempts of classify_email that have failed
    llm_result,      \* what classify_email returned for the current row
    reviewer_calls,  \* the reviewer requests sent for the current row
    counters         \* the counters of the pipeline

normVars == <<norm1, norm2>>
valVars == <<options, result, decision>>
keyVars == <<variant, keys>>
pipeVars == <<file_data, entries, processing, dedupe_results, cleaned_data, final_data>>
recVars == <<processed_rows, records_report, final_sheets>>
sheetVars == <<features, normalized, attempt, llm_result, reviewer_calls, counters>>
vars == <<pc, email, normVars, valVars, keyVars, pipeVars, recVars, sheetVars>>

\* the variables a specification does not use keep these values
NormIdle == norm1 = <<>> /\ norm2 = <<>>
ValIdle == options = <<>> /\ result = <<>> /\ decision = <<>>
KeyIdle == variant = <<>> /\ keys = <<>>
PipeIdle ==
    /\ file_data = <<>>
    /\ entries = <<>>
    /\ processing = <<>>
    /\ dedupe_results = <<>>
    /\ cleaned_data = <<>>
    /\ final_data = <<>>
RecIdle == processed_rows = <<>> /\ records_report = <<>> /\ final_sheets = <<>>
SheetIdle ==
    /\ features = <<>>
    /\ normalized = <<>>
    /\ attempt = 0
    /\ llm_result = <<>>
    /\ reviewer_calls = 0
    /\ counters = <<>>

(***************************************************************************)
(* Python str primitives                                                   *)
(***************************************************************************)
Upper == <<"A","B","C","D","E","F","G","H","I","J","K","L","M",
           "N","O","P","Q","R","S","T","U","V","W","X","Y","Z">>
Lower == <<"a","b","c","d","e","f","g","h","i","j","k","l","m",
           "n","o","p","q","r","s","t","u","v","w","x","y","z">>
Digits == <<"0","1","2","3","4","5","6","7","8","9">>

Range(q) == {q[i] : i \in 1..Len(q)}

\* str.lower() of one character
LowerChar(c) ==
    IF c \in Range(Upper)
    THEN Lower[CHOOSE i \in 1..26 : Upper[i] = c]
    ELSE c

\* str.lower()
lower(s) == [i \in 1..Len(s) |-> LowerChar(s[i])]

\* characters matched by \s and removed by str.strip()
Whitespace == {" "}

\* the characters of ZW
ZW == {"ZW"}

\* s with every character of the set cs removed
RemoveChars(s, cs) == SelectSeq(s, LAMBDA c : c \notin cs)

\* s.lstrip(cs)
RECURSIVE lstrip(_, _)
lstrip(s, cs) ==
    IF s # <<>> /\ Head(s) \in cs THEN lstrip(Tail(s), cs) ELSE s

\* s.rstrip(cs)
RECURSIVE rstrip(_, _)
rstrip(s, cs) ==
    IF s # <<>> /\ s[Len(s)] \in cs
    THEN rstrip(SubSeq(s, 1, Len(s) - 1), cs)
    ELSE s

\* s.strip(cs)
strip(s, cs) == rstrip(lstrip(s, cs), cs)

\* s.startswith(p), s.endswith(p)
startswith(s, p) == Len(p) <= Len(s) /\ SubSeq(s, 1, Len(p)) = p
endswith(s, p) ==
    Len(p) <= Len(s) /\ SubSeq(s, Len(s) - Len(p) + 1, Len(s)) = p

\* p in s
contains(s, p) ==
    \E i \in 1..(Len(s) - Len(p) + 1) : SubSeq(s, i, i + Len(p) - 1) = p

\* s.count(c) for a single character c
count(s, c) == Cardinality({i \in 1..Len(s) : s[i] = c})

\* s.replace(old, new), old not empty: leftmost occurrences, not overlapping
RECURSIVE replace(_, _, _)
replace(s, old, new) ==
    IF s = <<>> THEN <<>>
    ELSE IF startswith(s, old)
         THEN new \o replace(SubSeq(s, Len(old) + 1, Len(s)), old, new)
         ELSE <<Head(s)>> \o replace(Tail(s), old, new)

\* re.sub(r"\.{2,}", ".", s): every run of dots becomes one dot
RECURSIVE CollapseDots(_)
CollapseDots(s) ==
    IF Len(s) < 2 THEN s
    ELSE IF s[1] = "." /\ s[2] = "."
         THEN CollapseDots(Tail(s))
         ELSE <<Head(s)>> \o CollapseDots(Tail(s))

\* index of the first occurrence of character c in s (0 when absent)
IndexOf(s, c) ==
    IF \E i \in 1..Len(s) : s[i] = c
    THEN CHOOSE i \in 1..Len(s) : s[i] = c /\ \A j \in 1..(i - 1) : s[j] # c
    ELSE 0

\* s.split(c, 1)[0] and s.split(c, 1)[1] when c occurs in s
BeforeFirst(s, c) == SubSeq(s, 1, IndexOf(s, c) - 1)
AfterFirst(s, c) == SubSeq(s, IndexOf(s, c) + 1, Len(s))

(***************************************************************************)
(* Normalization                                                           *)
(***************************************************************************)
\* the keys of SMART_QUOTES_MAP as Python reads line 90: the first literal
\* opens with three quotes, so the first key is the 7-character string
\* colon, space, quote, quote, quote, comma, space
SmartKey1 == <<":", " ", "\"", "\"", "\"", ",", " ">>
SmartKey2 == <<"'">>

SMART_QUOTES_MAP(s) ==
    replace(replace(s, SmartKey1, <<"\"">>), SmartKey2, <<"'">>)

\* Each step of normalize_email_raw takes and returns the pair
\* [s |-> the string so far, flags |-> the flags appended so far].

\* lines 174-177: zero-width characters, outer whitespace, smart quotes
NormClean(s) ==
    [s |-> SMART_QUOTES_MAP(strip(RemoveChars(s, ZW), Whitespace)), flags |-> {}]

\* lines 178-180
NormAngle(r) ==
    IF "<" \in Range(r.s) \/ ">" \in Range(r.s)
    THEN [s |-> strip(strip(r.s, {"<", ">"}), Whitespace),
          flags |-> r.flags \cup {"angle_brackets_stripped"}]
    ELSE r

\* lines 182-184
NormFullwidth(r) ==
    IF "FWAT" \in Range(r.s)
    THEN [s |-> replace(r.s, <<"FWAT">>, <<"@">>),
          flags |-> r.flags \cup {"fullwidth_at_replaced"}]
    ELSE r

\* lines 186-188
NormWhitespace(r) ==
    IF \E i \in 1..Len(r.s) : r.s[i] \in Whitespace
    THEN [s |-> RemoveChars(r.s, Whitespace),
          flags |-> r.flags \cup {"whitespace_removed"}]
    ELSE r

\* lines 195-197, on [local, domain, flags]
NormTrailingDot(p) ==
    IF rstrip(p.domain, {"."}) # p.domain
    THEN [local |-> p.local, domain |-> rstrip(p.domain, {"."}),
          flags |-> p.flags \cup {"trailing_dot_domain_stripped"}]
    ELSE p

\* lines 199-202
NormDoubleDot(p) ==
    IF contains(p.domain, <<".", ".">>)
    THEN [local |-> p.local, domain |-> CollapseDots(p.domain),
          flags |-> p.flags \cup {"double_dot_domain_collapsed"}]
    ELSE p

\* lines 204-207
NormLowerDomain(p) ==
    [s |-> p.local \o <<"@">> \o lower(p.domain),
     flags |-> IF lower(p.domain) # p.domain
               THEN p.flags \cup {"domain_lowercased"} ELSE p.flags]

\* lines 209-212
NormFinish(original, r) ==
    IF r.s # original /\ "whitespace_removed" \notin r.flags
    THEN [s |-> r.s, flags |-> r.flags \cup {"normalized"}]
    ELSE r

\* lines 190-212
NormSplit(original, r) ==
    IF count(r.s, "@") # 1 THEN r
    ELSE NormFinish(original,
            NormLowerDomain(NormDoubleDot(NormTrailingDot(
                [local |-> BeforeFirst(r.s, "@"),
                 domain |-> AfterFirst(r.s, "@"),
                 flags |-> r.flags]))))

normalize_email_raw(s) ==
    NormSplit(s, NormWhitespace(NormFullwidth(NormAngle(NormClean(s)))))

(***************************************************************************)
(* Optional values: None is the empty tuple, a value v is <<v>>           *)
(***************************************************************************)
None == <<>>
Some(v) == <<v>>
IsNone(o) == o = <<>>
Value(o) == o[1]

\* s.split(c): the segments between the occurrences of c
RECURSIVE split(_, _)
split(s, c) ==
    IF IndexOf(s, c) = 0 THEN <<s>>
    ELSE <<BeforeFirst(s, c)>> \o split(AfterFirst(s, c), c)

\* s.rsplit(c, 1)[-1]
LastSegment(s, c) == LET p == split(s, c) IN p[Len(p)]

\* c.join(parts)
RECURSIVE join(_, _)
join(parts, c) ==
    IF parts = <<>> THEN <<>>
    ELSE IF Len(parts) = 1 THEN parts[1]
    ELSE parts[1] \o <<c>> \o join(Tail(parts), c)

(***************************************************************************)
(* Reference data of the engine                                            *)
(***************************************************************************)
DEFAULT_TLD_FIX ==
    << <<<<".","c","o","n">>, <<".","c","o","m">>>>, <<<<".","c","m","o">>,
      <<".","c","o","m">>>>, <<<<".","c","i","m">>, <<".","c","o","m">>>>,
      <<<<".","c","0","m">>, <<".","c","o","m">>>>, <<<<".","c","o","o","m">>,
      <<".","c","o","m">>>>, <<<<".","n","e","t","y">>, <<".","n","e","t">>>>,
      <<<<".","o","r","g","g">>, <<".","o","r","g">>>> >>

DEFAULT_DOMAIN_FIX ==
    << <<<<"g","m","i","a","l",".","c","o","m">>,
      <<"g","m","a","i","l",".","c","o","m">>>>,
      <<<<"g","a","m","i","l",".","c","o","m">>,
      <<"g","m","a","i","l",".","c","o","m">>>>,
      <<<<"g","n","a","i","l",".","c","o","m">>,
      <<"g","m","a","i","l",".","c","o","m">>>>,
      <<<<"h","o","t","n","a","i","l",".","c","o","m">>,
      <<"h","o","t","m","a","i","l",".","c","o","m">>>>,
      <<<<"y","a","h","h","o",".","c","o","m">>,
      <<"y","a","h","o","o",".","c","o","m">>>>,
      <<<<"o","u","t","l","o","k",".","c","o","m">>,
      <<"o","u","t","l","o","o","k",".","c","o","m">>>>,
      <<<<"f","a","c","e","b","o","o","o","k",".","c","o","m">>,
      <<"f","a","c","e","b","o","o","k",".","c","o","m">>>>,
      <<<<"i","c","l","o","u","d",".","c","o","n">>,
      <<"i","c","l","o","u","d",".","c","o","m">>>> >>

EMBED_FREE_MAIL ==
    { <<"g","m","a","i","l",".","c","o","m">>,
      <<"g","o","o","g","l","e","m","a","i","l",".","c","o","m">>,
      <<"o","u","t","l","o","o","k",".","c","o","m">>,
      <<"h","o","t","m","a","i","l",".","c","o","m">>,
      <<"l","i","v","e",".","c","o","m">>,
      <<"y","a","h","o","o",".","c","o","m">>,
      <<"y","a","h","o","o",".","c","o",".","u","k">>,
      <<"i","c","l","o","u","d",".","c","o","m">>,
      <<"m","e",".","c","o","m">>, <<"p","r","o","t","o","n",".","m","e">>,
      <<"p","r","o","t","o","n","m","a","i","l",".","c","o","m">>,
      <<"a","o","l",".","c","o","m">>, <<"g","m","x",".","c","o","m">>,
      <<"p","m",".","m","e">> }

EMBED_ROLE_LOCAL_PARTS ==
    { <<"a","d","m","i","n">>, <<"r","o","o","t">>, <<"i","n","f","o">>,
      <<"s","a","l","e","s">>, <<"s","u","p","p","o","r","t">>,
      <<"h","e","l","p">>, <<"c","o","n","t","a","c","t">>,
      <<"h","e","l","l","o">>, <<"n","o","r","e","p","l","y">>,
      <<"n","o","-","r","e","p","l","y">>,
      <<"d","o","n","o","t","r","e","p","l","y">>,
      <<"b","i","l","l","i","n","g">>, <<"a","c","c","o","u","n","t","s">>,
      <<"c","a","r","e","e","r","s">>, <<"j","o","b","s">>,
      <<"p","r","e","s","s">>, <<"m","a","r","k","e","t","i","n","g">>,
      <<"n","e","w","s","l","e","t","t","e","r">>,
      <<"d","e","v","n","u","l","l">>, <<"a","b","u","s","e">>,
      <<"p","o","s","t","m","a","s","t","e","r">> }

GMAIL_LIKE ==
    { <<"g","m","a","i","l",".","c","o","m">>,
      <<"g","o","o","g","l","e","m","a","i","l",".","c","o","m">> }

EmbeddedKnownTlds ==
    { <<"c","o","m">>, <<"n","e","t">>, <<"o","r","g">>, <<"i","o">>,
      <<"c","o">>, <<"a","i">>, <<"g","o","v">>, <<"e","d","u">>, <<"u","s">>,
      <<"u","k">>, <<"d","e">>, <<"f","r">>, <<"e","s">>, <<"i","t">>,
      <<"n","l">>, <<"c","a">>, <<"a","u">>, <<"c","h">>, <<"s","e">>,
      <<"n","o">>, <<"d","k">>, <<"f","i">>, <<"p","t">>, <<"b","r">>,
      <<"i","n">>, <<"s","g">>, <<"j","p">>, <<"k","r">>, <<"c","n">>,
      <<"m","e">>, <<"t","v">>, <<"d","e","v">> }

\* "BACKTICK" stands for the grave accent
LOCAL_SAFE_CHARS ==
    Range(Upper) \cup Range(Lower) \cup Range(Digits) \cup
    {"!", "#", "$", "%", "&", "'", "*", "+", "/", "=", "?", "^", "_",
     "BACKTICK", "{", "|", "}", "~", "-"}

AlphaNum == Range(Upper) \cup Range(Lower) \cup Range(Digits)

\* Characters outside ASCII.  U+00E9 is a Latin letter IDNA accepts, U+0430 a
\* Cyrillic letter IDNA accepts, U+2603 a symbol IDNA rejects.
NonAscii == {"ZW", "FWAT", "U+00E9", "U+0430", "U+2603"}
IdnaLetters == {"U+00E9", "U+0430"}
SuspiciousChars == {"U+0430"}

_has_suspicious_script(s) == \E i \in 1..Len(s) : s[i] \in SuspiciousChars

_is_ascii(s) == \A i \in 1..Len(s) : s[i] \notin NonAscii

split_local_domain(e) ==
    IF count(e, "@") # 1
    THEN [local |-> <<>>, domain |-> <<>>]
    ELSE [local |-> BeforeFirst(e, "@"), domain |-> AfterFirst(e, "@")]

(***************************************************************************)
(* Domain validation                                                       *)
(***************************************************************************)
MaxLabelLen == 63

\* idna.encode(domain, uts46=True) of the idna package, for one label: the
\* label is lower-cased; a label with letters outside ASCII becomes "xn--",
\* its ASCII characters, a hyphen and one letter and position per character
\* outside ASCII (standing for the Punycode deltas).
PunyLetter(c) == IF c = "U+00E9" THEN "q" ELSE "w"

RECURSIVE PunyDeltas(_, _)
PunyDeltas(lbl, i) ==
    IF i > Len(lbl) THEN <<>>
    ELSE (IF lbl[i] \in IdnaLetters
          THEN <<PunyLetter(lbl[i]), Digits[(i % 10) + 1]>>
          ELSE <<>>) \o PunyDeltas(lbl, i + 1)

IdnaLabel(lbl) ==
    IF _is_ascii(lbl) THEN lower(lbl)
    ELSE LET basic == lower(RemoveChars(lbl, IdnaLetters))
         IN  <<"x", "n", "-", "-">> \o basic
             \o (IF basic # <<>> THEN <<"-">> ELSE <<>>)
             \o PunyDeltas(lbl, 1)

\* whether idna.encode raises IDNAError: an empty label, a character that is
\* not a letter, digit or hyphen, a hyphen at either end or in both the third
\* and fourth place, or a label that is too long
IdnaLabelFails(lbl) ==
    \/ lbl = <<>>
    \/ \E i \in 1..Len(lbl) : lbl[i] \notin (AlphaNum \cup {"-"} \cup IdnaLetters)
    \/ lbl[1] = "-" \/ lbl[Len(lbl)] = "-"
    \/ (Len(lbl) >= 4 /\ lbl[3] = "-" /\ lbl[4] = "-")
    \/ Len(IdnaLabel(lbl)) > MaxLabelLen

\* lines 234-246, on the labels of a domain with characters outside ASCII
IdnaEncodeLabels(domain, labels) ==
    IF \E i \in 1..Len(labels) : IdnaLabelFails(labels[i])
    THEN [domain |-> domain, flags |-> {}]
    ELSE [domain |-> join([i \in 1..Len(labels) |-> IdnaLabel(labels[i])], "."),
          flags |-> {"non_ascii_domain"} \cup
              (IF _has_suspicious_script(domain)
               THEN {"unicode_confusable"} ELSE {})]

idna_ascii(domain) ==
    IF domain = <<>> \/ _is_ascii(domain)
    THEN [domain |-> domain, flags |-> {}]
    ELSE IdnaEncodeLabels(domain, split(domain, "."))

\* DOMAIN_LABEL_RE.match(lbl)
DOMAIN_LABEL_RE(lbl) ==
    /\ Len(lbl) >= 1
    /\ Len(lbl) <= MaxLabelLen
    /\ lbl[1] \in AlphaNum
    /\ lbl[Len(lbl)] \in AlphaNum
    /\ \A i \in 1..Len(lbl) : lbl[i] \in AlphaNum \cup {"-"}

\* lines 257-266, on the labels
DomainLabelRisks(labels) ==
    (IF \E i \in 1..Len(labels) : labels[i] = <<>>
     THEN {"double_dot_domain"} ELSE {})
    \cup
    (IF \E i \in 1..Len(labels) :
           \/ Len(labels[i]) = 0
           \/ Len(labels[i]) > MaxLabelLen
           \/ ~DOMAIN_LABEL_RE(labels[i])
     THEN {"invalid_domain_label"} ELSE {})

validate_domain_structure(domain_ascii) ==
    IF domain_ascii = <<>> THEN {"empty_domain"}
    ELSE DomainLabelRisks(split(domain_ascii, "."))

is_known_tld(domain_ascii, known_tlds) ==
    IF domain_ascii = <<>> \/ "." \notin Range(domain_ascii) THEN FALSE
    ELSE lower(LastSegment(domain_ascii, ".")) \in
            (IF IsNone(known_tlds) THEN EmbeddedKnownTlds ELSE Value(known_tlds))

(***************************************************************************)
(* Local-part validation                                                   *)
(***************************************************************************)
\* LOCAL_UNQUOTED_RE.match(local)
LOCAL_UNQUOTED_RE(local) ==
    /\ Len(local) >= 1
    /\ local[1] \in LOCAL_SAFE_CHARS
    /\ local[Len(local)] \in LOCAL_SAFE_CHARS
    /\ \A i \in 1..Len(local) : local[i] \in LOCAL_SAFE_CHARS \cup {"."}

\* lines 293-296
LocalDotRisks(local) ==
    (IF local[1] = "." \/ local[Len(local)] = "."
     THEN {"leading_trailing_dot"} ELSE {})
    \cup
    (IF contains(local, <<".", ".">>) THEN {"double_dot_local"} ELSE {})

\* lines 298-303
LocalSyntaxRisks(local) ==
    IF local[1] = "\"" /\ local[Len(local)] = "\"" THEN {}
    ELSE IF ~LOCAL_UNQUOTED_RE(local) THEN {"invalid_syntax"}
    ELSE {}

validate_local_part(local) ==
    IF local = <<>> THEN {"empty_local"}
    ELSE LocalDotRisks(local) \cup LocalSyntaxRisks(local)

(***************************************************************************)
(* Role / disposable / free-mail flags                                     *)
(***************************************************************************)
classify_role_account(local, role_locals) == lower(local) \in role_locals

classify_free_mail(domain_ascii) == lower(domain_ascii) \in EMBED_FREE_MAIL

classify_disposable(domain_ascii, disposable_set) ==
    lower(domain_ascii) \in disposable_set

(***************************************************************************)
(* Correction suggestions                                                  *)
(***************************************************************************)
\* the entries of DEFAULT_TLD_FIX whose key ends the domain, in dict order
TldFixHits(domain_ascii) ==
    SelectSeq(DEFAULT_TLD_FIX, LAMBDA kv : endswith(domain_ascii, kv[1]))

\* line 330 for the first hit
ApplyTldFix(domain_ascii, hits) ==
    IF hits = <<>> THEN None
    ELSE Some(SubSeq(domain_ascii, 1, Len(domain_ascii) - Len(hits[1][1]))
              \o hits[1][2])

suggest_tld_fix(domain_ascii) == ApplyTldFix(domain_ascii, TldFixHits(domain_ascii))

FirstValue(hits) == IF hits = <<>> THEN None ELSE Some(hits[1][2])

suggest_exact_domain_fix(domain_ascii) ==
    FirstValue(SelectSeq(DEFAULT_DOMAIN_FIX, LAMBDA kv : kv[1] = domain_ascii))

collapse_local_double_dot(local) ==
    IF contains(local, <<".", ".">>) THEN Some(CollapseDots(local)) ELSE None

\* length of the longest common prefix of s and t
RECURSIVE CommonPrefixLen(_, _)
CommonPrefixLen(s, t) ==
    IF s = <<>> \/ t = <<>> \/ Head(s) # Head(t) THEN 0
    ELSE 1 + CommonPrefixLen(Tail(s), Tail(t))

\* whether block x = <<i, j, size>> is preferred to block y by
\* find_longest_match: longer, then earlier in a, then earlier in b
BetterBlock(x, y) ==
    \/ x[3] > y[3]
    \/ x[3] = y[3] /\ x[1] < y[1]
    \/ x[3] = y[3] /\ x[1] = y[1] /\ x[2] <= y[2]

BestBlock(blocks) ==
    IF blocks = {} THEN <<1, 1, 0>>
    ELSE CHOOSE x \in blocks : \A y \in blocks : BetterBlock(x, y)

\* difflib.SequenceMatcher.find_longest_match over whole a and b
LongestMatch(a, b) ==
    BestBlock({<<i, j, CommonPrefixLen(SubSeq(a, i, Len(a)), SubSeq(b, j, Len(b)))>> :
                  i \in 1..Len(a), j \in 1..Len(b)})

\* the sum of the sizes of SequenceMatcher.get_matching_blocks()
RECURSIVE MatchingSize(_, _)
RECURSIVE MatchingSizeAround(_, _, _)
MatchingSizeAround(a, b, m) ==
    IF m[3] = 0 THEN 0
    ELSE m[3]
         + MatchingSize(SubSeq(a, 1, m[1] - 1), SubSeq(b, 1, m[2] - 1))
         + MatchingSize(SubSeq(a, m[1] + m[3], Len(a)),
                        SubSeq(b, m[2] + m[3], Len(b)))

MatchingSize(a, b) == MatchingSizeAround(a, b, LongestMatch(a, b))

\* one row of the longest-common-subsequence table: prev is the row of the
\* characters before c, cur the part of the new row built so far
NextLCSCell(prev, c, b, cur, j) ==
    IF c = b[j] THEN prev[j] + 1
    ELSE IF prev[j + 1] >= cur[j] THEN prev[j + 1] ELSE cur[j]

RECURSIVE LCSRow(_, _, _, _)
LCSRow(prev, c, b, cur) ==
    IF Len(cur) > Len(b) THEN cur
    ELSE LCSRow(prev, c, b, Append(cur, NextLCSCell(prev, c, b, cur, Len(cur))))

RECURSIVE LCSRows(_, _, _)
LCSRows(a, b, prev) ==
    IF a = <<>> THEN prev
    ELSE LCSRows(Tail(a), b, LCSRow(prev, Head(a), b, <<0>>))

\* length of the longest common subsequence (rapidfuzz's Indel distance)
LCS(a, b) == LCSRows(a, b, [j \in 1..(Len(b) + 1) |-> 0])[Len(b) + 1]

\* s < t in Python's string order, for the strings of a top-domain list
\* (lower-case letters, digits, dot and hyphen)
CharRank(c) ==
    IF c = "-" THEN 1
    ELSE IF c = "." THEN 2
    ELSE IF c \in Range(Digits) THEN 2 + (CHOOSE i \in 1..10 : Digits[i] = c)
    ELSE IF c \in Range(Upper) THEN 20 + (CHOOSE i \in 1..26 : Upper[i] = c)
    ELSE IF c \in Range(Lower) THEN 50 + (CHOOSE i \in 1..26 : Lower[i] = c)
    ELSE 100

RECURSIVE StrLess(_, _)
StrLess(s, t) ==
    IF t = <<>> THEN FALSE
    ELSE IF s = <<>> THEN TRUE
    ELSE IF Head(s) # Head(t) THEN CharRank(Head(s)) < CharRank(Head(t))
    ELSE StrLess(Tail(s), Tail(t))

\* Scores are fractions [num, den] of 100, compared by cross products.
ScoreLess(x, y) == x.num * y.den < y.num * x.den
ScoreAtLeast(x, min_score) == x.den > 0 /\ x.num >= min_score * x.den

\* fuzz.QRatio: 100 * 2 * LCS / (len1 + len2), 0 when either is empty
QRatio(s, t) ==
    IF s = <<>> \/ t = <<>> THEN [num |-> 0, den |-> 1]
    ELSE [num |-> 200 * LCS(s, t), den |-> Len(s) + Len(t)]

\* 100 * SequenceMatcher(None, a, b).ratio()
DifflibRatio(a, b) ==
    IF a = <<>> /\ b = <<>> THEN [num |-> 100, den |-> 1]
    ELSE [num |-> 200 * MatchingSize(a, b), den |-> Len(a) + Len(b)]

\* the first of the best-scoring choices, when its score reaches min_score
BestFirst(choices, scores, min_score) ==
    IF \A i \in 1..Len(choices) : ~ScoreAtLeast(scores[i], min_score) THEN None
    ELSE Some(choices[CHOOSE i \in 1..Len(choices) :
                 /\ \A j \in 1..Len(choices) : ~ScoreLess(scores[i], scores[j])
                 /\ \A j \in 1..(i - 1) : ScoreLess(scores[j], scores[i])])

\* the largest (score, word) pair among the words that reach min_score
BestLargest(choices, scores, min_score) ==
    IF \A i \in 1..Len(choices) : ~ScoreAtLeast(scores[i], min_score) THEN None
    ELSE Some(choices[CHOOSE i \in 1..Len(choices) :
                 /\ ScoreAtLeast(scores[i], min_score)
                 /\ \A j \in 1..Len(choices) :
                       \/ ScoreLess(scores[j], scores[i])
                       \/ /\ ~ScoreLess(scores[i], scores[j])
                          /\ ~StrLess(choices[i], choices[j])])

\* rf_process.extractOne(domain_ascii, top_domains, scorer=fuzz.QRatio)
\* with the test match[1] >= min_score
RapidfuzzCandidate(domain_ascii, top_domains, min_score) ==
    BestFirst(top_domains,
              [i \in 1..Len(top_domains) |-> QRatio(domain_ascii, top_domains[i])],
              min_score)

\* difflib.get_close_matches(domain_ascii, top_domains, n=1, cutoff)
DifflibCandidate(domain_ascii, top_domains, min_score) ==
    BestLargest(top_domains,
                [i \in 1..Len(top_domains) |-> DifflibRatio(top_domains[i], domain_ascii)],
                min_score)

MinScore == 90

\* line 351
FuzzyLengthGuard(domain_ascii, cand) ==
    IF /\ ~IsNone(cand)
       /\ Len(Value(cand)) > 2
       /\ Len(Value(cand)) - Len(domain_ascii) <= 2
       /\ Len(domain_ascii) - Len(Value(cand)) <= 2
    THEN cand ELSE None

suggest_fuzzy_domain_fix(domain_ascii, top_domains, has_rapidfuzz) ==
    IF top_domains = <<>> THEN None
    ELSE FuzzyLengthGuard(domain_ascii,
            IF has_rapidfuzz
            THEN RapidfuzzCandidate(domain_ascii, top_domains, MinScore)
            ELSE DifflibCandidate(domain_ascii, top_domains, MinScore))

(***************************************************************************)
(* Canonicalization for de-duplication                                     *)
(***************************************************************************)
\* the Gmail rule with the tag cut off but the dots kept
CanonicalLocal_KeepDots(local, d, provider_aware) ==
    RemoveChars(IF provider_aware /\ d \in GMAIL_LIKE
                THEN split(local, "+")[1]
                ELSE lower(local),
                ZW) \o <<"@">> \o d

\* lines 378-390, on the local part and the lower-cased ASCII domain
CanonicalLocal(local, d, provider_aware) ==
    RemoveChars(IF provider_aware /\ d \in GMAIL_LIKE
                THEN RemoveChars(split(local, "+")[1], {"."})
                ELSE lower(local),
                ZW) \o <<"@">> \o d

\* lines 375-377
CanonicalParts(ld, provider_aware) ==
    CanonicalLocal(ld.local, lower(idna_ascii(ld.domain).domain), provider_aware)

\* lines 373-375
CanonicalOfNormalized(norm, provider_aware) ==
    IF count(norm, "@") # 1 THEN None
    ELSE Some(CanonicalParts(split_local_domain(norm), provider_aware))

canonical_key(e, provider_aware) ==
    CanonicalOfNormalized(normalize_email_raw(e).s, provider_aware)

(***************************************************************************)
(* Risk -> confidence heuristic, in thousandths                            *)
(***************************************************************************)
\* RISK_WEIGHTS.get(r, 0.2), in tenths
RISK_WEIGHTS(r) ==
    CASE r = "invalid_syntax" -> 9
      [] r = "multiple_at" -> 7
      [] r = "empty_local" -> 7
      [] r = "empty_domain" -> 7
      [] r = "leading_trailing_dot" -> 5
      [] r = "double_dot_local" -> 5
      [] r = "double_dot_domain" -> 5
      [] r = "bad_tld" -> 8
      [] r = "invalid_domain_label" -> 7
      [] r = "unicode_confusable" -> 6
      [] r = "non_ascii_domain" -> 3
      [] r = "disposable_domain" -> 7
      [] r = "role_account" -> 3
      [] r = "free_mail_domain" -> 1
      [] r = "whitespace_present" -> 2
      [] OTHER -> 2

RECURSIVE SumWeights(_)
SumWeights(rs) ==
    IF rs = {} THEN 0
    ELSE LET r == CHOOSE x \in rs : TRUE
         IN  RISK_WEIGHTS(r) + SumWeights(rs \ {r})

\* in tenths
_risk_score(risks) == SumWeights(risks)

Min(a, b) == IF a <= b THEN a ELSE b
Max(a, b) == IF a >= b THEN a ELSE b

BaseConfidence(action, risks) ==
    IF action = "accept" /\ risks = {} THEN 980
    ELSE IF action = "fix_auto" THEN 900
    ELSE IF action = "review" THEN 400
    ELSE 100

\* the weighted sum taken off without the cap of line 401
Penalty_Uncapped(risks) == _risk_score(risks) * 15

Penalty(risks) == Min(600, _risk_score(risks) * 15)

Bonus(action, fix_kind) ==
    IF action = "fix_auto" /\ fix_kind = Some("exact") THEN 50 ELSE 0

_confidence_for(action, risks, fix_kind) ==
    Max(10, Min(990, BaseConfidence(action, risks) - Penalty(risks)
                     + Bonus(action, fix_kind)))

(***************************************************************************)
(* Main entry point                                                        *)
(***************************************************************************)
\* A suggestion is [fix |-> Optional str, kind |-> Optional str].
NoSuggestion == [fix |-> None, kind |-> None]

\* lines 466-470: 1) TLD one-step fix
SuggestTld(local, tld_fix) ==
    IF ~IsNone(tld_fix)
    THEN [fix |-> Some(local \o <<"@">> \o Value(tld_fix)), kind |-> Some("exact")]
    ELSE NoSuggestion

\* lines 472-476: 2) exact domain typo fix (overrides the TLD fix)
SuggestExact(local, exact, sofar) ==
    IF ~IsNone(exact)
    THEN [fix |-> Some(local \o <<"@">> \o Value(exact)), kind |-> Some("exact")]
    ELSE sofar

\* line 481
CollapseUsable(lfix) ==
    /\ ~IsNone(lfix)
    /\ Value(lfix) # <<>>
    /\ Value(lfix)[1] # "."
    /\ Value(lfix)[Len(Value(lfix))] # "."

\* lines 478-483: 3) local double dot -> single dot
SuggestCollapse(domain_ascii, risks, lfix, sofar) ==
    IF IsNone(sofar.fix) /\ "double_dot_local" \in risks /\ CollapseUsable(lfix)
    THEN [fix |-> Some(Value(lfix) \o <<"@">> \o domain_ascii),
          kind |-> Some("local_collapse")]
    ELSE sofar

\* lines 488-490
FuzzySuggestion(local, fz, sofar) ==
    IF ~IsNone(fz)
    THEN [fix |-> Some(local \o <<"@">> \o Value(fz)), kind |-> Some("fuzzy_domain")]
    ELSE sofar

\* lines 485-490: 4) fuzzy domain fix
SuggestFuzzy(local, domain_ascii, risks, refs, sofar) ==
    IF IsNone(sofar.fix) /\ ("invalid_domain_label" \in risks \/ "bad_tld" \in risks)
    THEN FuzzySuggestion(local,
            suggest_fuzzy_domain_fix(domain_ascii, refs.top_domains, refs.has_rapidfuzz),
            sofar)
    ELSE sofar

\* lines 462-490: the suggestion the four steps leave
SuggestFix(local, domain_ascii, risks, refs) ==
    SuggestFuzzy(local, domain_ascii, risks, refs,
        SuggestCollapse(domain_ascii, risks, collapse_local_double_dot(local),
            SuggestExact(local, suggest_exact_domain_fix(domain_ascii),
                SuggestTld(local, suggest_tld_fix(domain_ascii)))))

fundamental ==
    {"invalid_syntax", "multiple_at", "empty_local", "empty_domain",
     "invalid_domain_label"}

medium_risks == {"unicode_confusable", "non_ascii_domain", "role_account"}

risky_any(risks) ==
    \/ risks \cap fundamental # {}
    \/ "bad_tld" \in risks
    \/ "disposable_domain" \in risks

\* the chain with the suggestion tested before the role-account policy
DecideAction_FixBeforeRole(exclude_role_accounts, risks, suggestion) ==
    IF ~IsNone(suggestion.fix)
    THEN [action |-> "fix_auto",
          notes |-> <<"Suggested fix (" \o Value(suggestion.kind) \o ")">>]
    ELSE IF exclude_role_accounts /\ "role_account" \in risks
    THEN [action |-> "suppress",
          notes |-> <<"Role account excluded by policy">>]
    ELSE IF risky_any(risks)
    THEN [action |-> "suppress",
          notes |-> <<"Fundamental or high-risk issue with no safe fix">>]
    ELSE [action |-> "accept", notes |-> <<>>]

\* the action and the notes_parts of the if/elif chain of lines 497-509
DecideAction(exclude_role_accounts, risks, suggestion) ==
    IF exclude_role_accounts /\ "role_account" \in risks
    THEN [action |-> "suppress",
          notes |-> <<"Role account excluded by policy">>]
    ELSE IF risky_any(risks) /\ IsNone(suggestion.fix)
    THEN [action |-> "suppress",
          notes |-> <<"Fundamental or high-risk issue with no safe fix">>]
    ELSE IF ~IsNone(suggestion.fix)
    THEN [action |-> "fix_auto",
          notes |-> <<"Suggested fix (" \o Value(suggestion.kind) \o ")">>]
    ELSE [action |-> "accept", notes |-> <<>>]

\* the downgrade applied whatever the action decided
ReviewDowngrade_AnyAction(risks, suggestion, decided) ==
    IF Cardinality(risks \cap medium_risks) >= 2
    THEN [action |-> "review",
          notes |-> decided.notes \o <<"Multiple medium risks; review recommended">>,
          confidence |-> _confidence_for("review", risks, None)]
    ELSE [action |-> decided.action,
          notes |-> decided.notes,
          confidence |-> _confidence_for(decided.action, risks, suggestion.kind)]

\* lines 511-519: the confidence, and the downgrade of accept to review
ReviewDowngrade(risks, suggestion, decided) ==
    IF decided.action = "accept" /\ Cardinality(risks \cap medium_risks) >= 2
    THEN [action |-> "review",
          notes |-> decided.notes \o <<"Multiple medium risks; review recommended">>,
          confidence |-> _confidence_for("review", risks, None)]
    ELSE [action |-> decided.action,
          notes |-> decided.notes,
          confidence |-> _confidence_for(decided.action, risks, suggestion.kind)]

\* the risk flags collected by lines 443-460; idn is idna_ascii(domain)
CollectRisks(local, idn, refs) ==
    idn.flags
    \cup validate_domain_structure(idn.domain)
    \cup (IF ~is_known_tld(idn.domain, refs.tld_whitelist) THEN {"bad_tld"} ELSE {})
    \cup validate_local_part(local)
    \cup (IF classify_role_account(local, refs.role_locals)
          THEN {"role_account"} ELSE {})
    \cup (IF classify_free_mail(idn.domain) THEN {"free_mail_domain"} ELSE {})
    \cup (IF classify_disposable(idn.domain, refs.disposable_set)
          THEN {"disposable_domain"} ELSE {})

\* line 522
FinalEmail(local, domain_ascii) ==
    IF classify_free_mail(domain_ascii)
    THEN lower(local \o <<"@">> \o domain_ascii)
    ELSE local \o <<"@">> \o domain_ascii

\* lines 524-526
KeyOf(action, suggestion, final_email) ==
    IF action = "suppress" THEN None
    ELSE canonical_key(IF ~IsNone(suggestion.fix)
                       THEN Value(suggestion.fix) ELSE final_email, TRUE)

\* line 535: "; ".join(notes_parts)[:160].  A note is kept as one element
\* of the string; the longest joined text has 91 characters, so the cut
\* at 160 never removes anything.
NotesStr(notes_parts) ==
    join([i \in 1..Len(notes_parts) |-> <<notes_parts[i]>>], "; ")

\* lines 521-538
BuildResult(original, n, risks, suggestion, final, final_email) ==
    [input_email |-> original,
     normalized_email |-> final_email,
     action |-> final.action,
     confidence |-> final.confidence,
     risk_reasons |-> risks \cup n.flags,
     suggested_fix |-> suggestion.fix,
     notes |-> NotesStr(final.notes),
     canonical_key |-> KeyOf(final.action, suggestion, final_email)]

\* lines 492-538
Decide(original, n, local, domain_ascii, exclude_role_accounts, risks, suggestion) ==
    BuildResult(original, n, risks, suggestion,
        ReviewDowngrade(risks, suggestion,
            DecideAction(exclude_role_accounts, risks, suggestion)),
        FinalEmail(local, domain_ascii))

\* lines 462-538
ValidateRisks(original, n, local, domain_ascii, exclude_role_accounts, refs, risks) ==
    Decide(original, n, local, domain_ascii, exclude_role_accounts, risks,
           SuggestFix(local, domain_ascii, risks, refs))

\* lines 443-538
ValidateParts(original, n, local, idn, exclude_role_accounts, refs) ==
    ValidateRisks(original, n, local, idn.domain, exclude_role_accounts, refs,
                  CollectRisks(local, idn, refs))

\* lines 433-438
InvalidAtCount(original, n, risks) ==
    [input_email |-> original,
     normalized_email |-> n.s,
     action |-> "suppress",
     confidence |-> _confidence_for("suppress", risks, None),
     risk_reasons |-> risks \cup n.flags,
     suggested_fix |-> None,
     notes |-> <<"Invalid '@' count">>,
     canonical_key |-> None]

\* lines 432-538, n is normalize_email_raw(original)
ValidateNormalized(original, n, exclude_role_accounts, refs) ==
    IF count(n.s, "@") # 1
    THEN InvalidAtCount(original, n,
            IF count(n.s, "@") > 1 THEN {"invalid_syntax", "multiple_at"}
            ELSE {"invalid_syntax"})
    ELSE ValidateParts(original, n, BeforeFirst(n.s, "@"),
                       idna_ascii(AfterFirst(n.s, "@")),
                       exclude_role_accounts, refs)

validate_email_deterministic(e, exclude_role_accounts, refs) ==
    ValidateNormalized(e, normalize_email_raw(e), exclude_role_accounts, refs)

(***************************************************************************)
(* Specification SpecNorm: normalize_email_raw applied to a string and     *)
(* then to its own result                                                  *)
(***************************************************************************)
MaxNormLen == 4

NormAlphabet == {"a", "A", "@", ".", "<", ">", " ", "ZW", "FWAT"}

StringsUpTo(alphabet, n) == UNION {[1..k -> alphabet] : k \in 0..n}

NormInit ==
    /\ pc = "start"
    /\ email \in StringsUpTo(NormAlphabet, MaxNormLen)
    /\ NormIdle
    /\ SheetIdle
    /\ ValIdle
    /\ KeyIdle
    /\ PipeIdle
    /\ RecIdle

\* normalized, flags = normalize_email_raw(email)
Normalize ==
    /\ pc = "start"
    /\ norm1' = normalize_email_raw(email).s
    /\ pc' = "normalized"
    /\ UNCHANGED <<email, sheetVars, norm2, valVars, keyVars, pipeVars, recVars>>

\* normalize_email_raw(normalized), as canonical_key does with the
\* normalized address it is handed
NormalizeAgain ==
    /\ pc = "normalized"
    /\ norm2' = normalize_email_raw(norm1).s
    /\ pc' = "renormalized"
    /\ UNCHANGED <<email, sheetVars, norm1, valVars, keyVars, pipeVars, recVars>>

NormNext == Normalize \/ NormalizeAgain

SpecNorm == NormInit /\ [][NormNext]_vars

\* C2: normalize_email_raw is idempotent on the normalized string:
\* normalizing the normalized result again returns the same string.
C2_NormalizeIdempotent == pc = "renormalized" => norm2 = norm1

(***************************************************************************)
(* EmailProcessor._process_email and _map_result_to_format                 *)
(***************************************************************************)
\* the decimal digits of a natural number
RECURSIVE DigitsOf(_)
DigitsOf(n) ==
    IF n < 10 THEN <<Digits[n + 1]>>
    ELSE DigitsOf(n \div 10) \o <<Digits[(n % 10) + 1]>>

\* f"{confidence:.1%}" of a confidence given in thousandths
PercentStr(conf) == DigitsOf(conf \div 10) \o <<".", Digits[(conf % 10) + 1], "%">>

\* the mapping with reason taken from result.notes alone
MappedDecision_NotesOnly(original_email, r, action, output_email) ==
    [action |-> action,
     output_email |-> output_email,
     confidence |-> r.confidence,
     changed |-> output_email # original_email,
     reason |-> r.notes]

\* lines 141-147
MappedDecision(original_email, r, action, output_email) ==
    [action |-> action,
     output_email |-> output_email,
     confidence |-> r.confidence,
     changed |-> output_email # original_email,
     reason |-> IF r.notes # <<>> THEN r.notes
                ELSE <<action, " - ">> \o PercentStr(r.confidence)
                     \o <<" confidence">>]

_map_result_to_format(original_email, r) ==
    MappedDecision(original_email, r,
        IF r.action = "suppress" THEN "remove" ELSE r.action,
        IF ~IsNone(r.suggested_fix) THEN Value(r.suggested_fix)
        ELSE r.normalized_email)

(***************************************************************************)
(* Specification SpecValidate: one address through the engine and the      *)
(* processor's mapping                                                     *)
(***************************************************************************)
Str_company_com == <<"c","o","m","p","a","n","y",".","c","o","m">>
Str_gmail_com == <<"g","m","a","i","l",".","c","o","m">>
Str_yahoo_com == <<"y","a","h","o","o",".","c","o","m">>
Str_mailinator_com == <<"m","a","i","l","i","n","a","t","o","r",".","c","o","m">>
Str_acme_xyz == <<"a","c","m","e",".","x","y","z">>

\* the reference sets load_reference_sets returns when no config file exists
DefaultRefs ==
    [disposable_set |-> {},
     role_locals |-> EMBED_ROLE_LOCAL_PARTS,
     top_domains |-> <<>>,
     tld_whitelist |-> None,
     has_rapidfuzz |-> FALSE]

\* reference sets read from config files, with either fuzzy matcher
ListRefs(has_rapidfuzz) ==
    [disposable_set |-> {Str_mailinator_com},
     role_locals |-> EMBED_ROLE_LOCAL_PARTS,
     top_domains |-> <<Str_gmail_com, Str_yahoo_com, Str_company_com, Str_acme_xyz>>,
     tld_whitelist |-> None,
     has_rapidfuzz |-> has_rapidfuzz]

RefChoices == {DefaultRefs, ListRefs(TRUE), ListRefs(FALSE)}

\* a local part of 65 characters
LongLocal == [i \in 1..65 |-> "a"] \o <<>>

LocalChoices ==
    { <<>>,
      LongLocal,
      <<"a","n","n","a">>,
      <<"s","a","l","e","s">>,
      <<"S","a","l","e","s">>,
      <<"j","o","h","n",".",".","d","o","e">>,
      <<"a",".",".">>,
      <<"a","(","b">>,
      <<"a",".",".","(","b">>,
      <<"a",".","b","+","x">>,
      <<"\"","x","\"">>,
      <<"i","n","f","o",".",".">> }

DomainChoices ==
    { <<>>,
      Str_company_com,
      <<"c","o","m","p","a","n","y",".","c","o","n">>,
      <<"g","m","i","a","l",".","c","o","m">>,
      <<"G","m","a","i","l",".","C","O","M">>,
      <<"i","c","l","o","u","d",".","c","o","n">>,
      Str_acme_xyz,
      <<"-","b","a","d",".","c","o","n">>,
      Str_mailinator_com,
      <<"g","m","a","i","l",".","c","o">>,
      <<"g","m","a","i","l",".","c","o","m","m">>,
      <<"a","c","m","e",".","x","y","z","z">>,
      <<"e","x","U+00E9","m","p","l","e",".","c","o","m">>,
      <<"U+0430","p","p","l","e",".","c","o","m">>,
      <<"U+2603",".","c","o","m">> }

SeparatorChoices == { <<"@">>, <<"@","@">>, <<>>, <<"FWAT">> }

\* what surrounds the address in the cell: <<prefix, suffix>>
WrapChoices ==
    { <<<<>>, <<>>>>,
      <<<<" ">>, <<" ">>>>,
      <<<<"<">>, <<">">>>>,
      <<<<"ZW">>, <<".">>>> }

ValInit ==
    /\ pc = "start"
    /\ email \in {w[1] \o l \o s \o d \o w[2] :
                     w \in WrapChoices, l \in LocalChoices,
                     s \in SeparatorChoices, d \in DomainChoices}
    /\ options \in [exclude_role_accounts : BOOLEAN, refs : RefChoices]
    /\ result = <<>>
    /\ decision = <<>>
    /\ NormIdle
    /\ SheetIdle
    /\ KeyIdle
    /\ PipeIdle
    /\ RecIdle

\* validate_email_deterministic(original_email, ...) of _process_email
Validate ==
    /\ pc = "start"
    /\ result' = validate_email_deterministic(email, options.exclude_role_accounts,
                                               options.refs)
    /\ pc' = "validated"
    /\ UNCHANGED <<email, sheetVars, options, decision, normVars, keyVars, pipeVars, recVars>>

\* the mapping that ends _process_email
MapResult ==
    /\ pc = "validated"
    /\ decision' = _map_result_to_format(email, result)
    /\ pc' = "mapped"
    /\ UNCHANGED <<email, sheetVars, options, result, normVars, keyVars, pipeVars, recVars>>

ValNext == Validate \/ MapResult

SpecValidate == ValInit /\ [][ValNext]_vars

(***************************************************************************)
(* Properties of the engine's decision, under SpecValidate                 *)
(***************************************************************************)
EngineActions == {"accept", "fix_auto", "review", "suppress"}

Validated == pc \in {"validated", "mapped"}

\* the flags that make risky_any true at lines 493-495
SuppressionLevel == fundamental \cup {"bad_tld", "disposable_domain"}

\* the normalized address, its local part and its domain
NormalizedInput == normalize_email_raw(email).s
InputLocal == BeforeFirst(NormalizedInput, "@")
InputDomain == AfterFirst(NormalizedInput, "@")

\* the suppression-level flags the engine raises on the suggested address
FlagsOfFix ==
    validate_email_deterministic(Value(result.suggested_fix), FALSE,
                                 options.refs).risk_reasons \cap SuppressionLevel

\* C4: suppression precedence: when the address carries a suppression-level
\* flag and a suggestion is available, the action is fix_auto only if the
\* suggested address carries no suppression-level flag, and is suppress
\* when it carries one.
C4_SuppressionPrecedence ==
    (/\ Validated
     /\ result.risk_reasons \cap SuppressionLevel # {}
     /\ ~IsNone(result.suggested_fix))
    => IF FlagsOfFix = {} THEN result.action \in {"fix_auto", "suppress"}
       ELSE result.action = "suppress"

\* C5: structural errors always suppress: an address whose normalized form
\* does not hold exactly one '@', or whose local or domain segment is
\* empty, gets action suppress whatever suggestion applies.
C5_StructuralErrorsSuppress ==
    (/\ Validated
     /\ \/ count(NormalizedInput, "@") # 1
        \/ InputLocal = <<>>
        \/ InputDomain = <<>>)
    => result.action = "suppress"

\* C6 as stated: every input ends with one of the four actions and a
\* non-empty notes string.
C6_NotesPopulated ==
    Validated => result.action \in EngineActions /\ result.notes # <<>>

\* C6 amended: every input ends with one of the four actions; the notes of
\* the engine are empty exactly when the action is accept, and the reason
\* _map_result_to_format builds from them is never empty.
C6_ActionAndReason ==
    /\ Validated => /\ result.action \in EngineActions
                    /\ (result.notes = <<>>) <=> (result.action = "accept")
    /\ pc = "mapped" => /\ decision.reason # <<>>
                        /\ decision.action \in {"accept", "fix_auto", "review", "remove"}

\* an accepted address, whose empty notes the mapping replaced by a reason
C6_AcceptedWithReason ==
    /\ pc = "mapped"
    /\ result.action = "accept"
    /\ result.notes = <<>>
    /\ decision.reason # <<>>

\* C8: with exclude_role_accounts on, an address with exactly one '@' whose
\* local part is in the role set is suppressed with the role-account note,
\* suggestion or not; with the option off, an address whose only ground
\* for suppression would be role_account is not suppressed.
C8_RoleAccountPolicy ==
    (Validated /\ count(NormalizedInput, "@") = 1)
    => /\ (/\ options.exclude_role_accounts
           /\ lower(InputLocal) \in options.refs.role_locals)
          => /\ result.action = "suppress"
             /\ result.notes = <<"Role account excluded by policy">>
       /\ (/\ ~options.exclude_role_accounts
           /\ "role_account" \in result.risk_reasons
           /\ result.risk_reasons \cap SuppressionLevel = {})
          => result.action # "suppress"

\* a role address with a suggestion available, suppressed by the policy
C8_RoleSuppressedDespiteFix ==
    /\ Validated
    /\ options.exclude_role_accounts
    /\ lower(InputLocal) \in options.refs.role_locals
    /\ ~IsNone(result.suggested_fix)
    /\ result.action = "suppress"

(***************************************************************************)
(* Specification SpecKey: canonical_key of an address and of the same      *)
(* address with dots inserted into the local part or a tag appended to it  *)
(***************************************************************************)
MaxKeyLocalLen == 2
MaxEdits == 2

KeyLocalAlphabet == {"a", "B", ".", "+", "<"}

KeyDomainChoices ==
    { Str_gmail_com,
      <<"g","o","o","g","l","e","m","a","i","l",".","c","o","m">>,
      <<"G","m","a","i","l",".","C","O","M">>,
      Str_company_com,
      <<"e","x","U+00E9","m","p","l","e",".","c","o","m">>,
      <<"o","u","t","l","o","o","k",".","c","o","m">> }

KeyInit ==
    /\ pc = "start"
    /\ email \in {l \o <<"@">> \o d :
                     l \in StringsUpTo(KeyLocalAlphabet, MaxKeyLocalLen),
                     d \in KeyDomainChoices}
    /\ options \in [provider_aware : BOOLEAN]
    /\ result = <<>>
    /\ decision = <<>>
    /\ variant = email
    /\ keys = [edits |-> 0]
    /\ NormIdle
    /\ SheetIdle
    /\ PipeIdle
    /\ RecIdle

\* canonical_key(email, provider_aware)
KeyOfAddress ==
    /\ pc = "start"
    /\ keys' = [edits |-> 0, base |-> canonical_key(email, options.provider_aware)]
    /\ pc' = "keyed"
    /\ UNCHANGED <<email, sheetVars, variant, normVars, valVars, pipeVars, recVars>>

\* the caller writes one more dot into the local part
InsertDot ==
    /\ pc = "keyed"
    /\ keys.edits < MaxEdits
    /\ \E i \in 0..Len(BeforeFirst(variant, "@")) :
          variant' = SubSeq(variant, 1, i) \o <<".">> \o SubSeq(variant, i + 1, Len(variant))
    /\ keys' = [keys EXCEPT !.edits = @ + 1]
    /\ UNCHANGED <<pc, email, sheetVars, normVars, valVars, pipeVars, recVars>>

\* the caller appends the tag +x to the local part
AppendTag ==
    /\ pc = "keyed"
    /\ keys.edits < MaxEdits
    /\ variant' = BeforeFirst(variant, "@") \o <<"+", "x", "@">> \o AfterFirst(variant, "@")
    /\ keys' = [keys EXCEPT !.edits = @ + 1]
    /\ UNCHANGED <<pc, email, sheetVars, normVars, valVars, pipeVars, recVars>>

\* canonical_key(variant, provider_aware)
KeyOfVariant ==
    /\ pc = "keyed"
    /\ keys.edits > 0
    /\ keys' = [edits |-> keys.edits, base |-> keys.base,
                variant |-> canonical_key(variant, options.provider_aware)]
    /\ pc' = "compared"
    /\ UNCHANGED <<email, sheetVars, variant, normVars, valVars, pipeVars, recVars>>

KeyNext == KeyOfAddress \/ InsertDot \/ AppendTag \/ KeyOfVariant

SpecKey == KeyInit /\ [][KeyNext]_vars

KeyLocal == BeforeFirst(email, "@")
KeyDomain == AfterFirst(email, "@")
GmailEquivalent == lower(KeyDomain) \in GMAIL_LIKE
AlreadyNormalized == normalize_email_raw(email).s = email

\* C7 as stated: with provider-aware mode on, for a Gmail-equivalent domain
\* the key is unchanged by inserting dots into the local part or appending
\* a +tag; with the mode off, the key of an already normalized address is
\* the address itself.
C7_KeyEquivalence ==
    /\ (pc = "compared" /\ options.provider_aware /\ GmailEquivalent)
       => keys.variant = keys.base
    /\ (pc \in {"keyed", "compared"} /\ ~options.provider_aware /\ AlreadyNormalized)
       => keys.base = Some(email)

\* C7 amended: for an already normalized address, with provider-aware mode
\* on and a Gmail-equivalent domain the key is unchanged by inserting dots
\* into the local part or appending a +tag; with the mode off and an ASCII
\* domain the key is the address with its local part lower-cased, dots and
\* plus-tag kept.
C7_KeyEquivalenceNormalized ==
    /\ (pc = "compared" /\ options.provider_aware /\ GmailEquivalent
        /\ AlreadyNormalized)
       => keys.variant = keys.base
    /\ (pc \in {"keyed", "compared"} /\ ~options.provider_aware
        /\ AlreadyNormalized /\ _is_ascii(KeyDomain))
       => keys.base = Some(lower(KeyLocal) \o <<"@">> \o KeyDomain)

\* a normalized Gmail address and a dotted, tagged variant with the same key
C7_DottedTaggedSameKey ==
    /\ pc = "compared"
    /\ options.provider_aware
    /\ GmailEquivalent
    /\ AlreadyNormalized
    /\ KeyLocal # <<>>
    /\ Len(variant) = Len(email) + 3
    /\ keys.edits = 2
    /\ keys.variant = keys.base
    /\ ~IsNone(keys.base)

(***************************************************************************)
(* Tables and entries (src/app/email_entry.py, utils/email_col_detector.py)*)
(*                                                                         *)
(* file_data is the sequence of the sheets in the order of the dict; a     *)
(* sheet is [name, columns, rows], a row the sequence of its cells, a cell *)
(* the str of its value (NaN prints as "nan").                             *)
(***************************************************************************)
Str_nan == <<"n","a","n">>
Str_None == <<"N","o","n","e">>

\* EmailEntry(sheet=..., row_number=..., col_number=..., col_name=..., raw=...)
EmailEntry(sheet, row_number, col_number, col_name, raw) ==
    [sheet |-> sheet,
     row_number |-> row_number,
     col_number |-> col_number,
     col_name |-> col_name,
     raw |-> raw,
     cleaned |-> <<>>,
     canonical_key |-> <<>>,
     action |-> "",
     confidence |-> 0,
     changed |-> FALSE,
     reason |-> <<>>]

is_empty(e) == e.raw = <<>> \/ e.raw \in {Str_nan, Str_None}

is_duplicate(e) == e.action = "duplicate"

\* the concatenation of a sequence of sequences
RECURSIVE Flatten(_)
Flatten(ss) == IF ss = <<>> THEN <<>> ELSE Head(ss) \o Flatten(Tail(ss))

\* the header names EmailColumnDetector.email_patterns match, with "_" and
\* " " for the class [_\s]
EmailHeaderNames ==
    { <<"e","m","a","i","l">>,
      <<"e","m","a","i","l","_","a","d","d","r","e","s","s">>,
      <<"e","m","a","i","l"," ","a","d","d","r","e","s","s">>,
      <<"e","-","m","a","i","l">>,
      <<"e","_","m","a","i","l">>,
      <<"e"," ","m","a","i","l">>,
      <<"w","o","r","k","_","e","m","a","i","l">>,
      <<"w","o","r","k"," ","e","m","a","i","l">>,
      <<"b","u","s","i","n","e","s","s","_","e","m","a","i","l">>,
      <<"b","u","s","i","n","e","s","s"," ","e","m","a","i","l">>,
      <<"c","o","n","t","a","c","t","_","e","m","a","i","l">>,
      <<"c","o","n","t","a","c","t"," ","e","m","a","i","l">>,
      <<"p","r","i","m","a","r","y","_","e","m","a","i","l">>,
      <<"p","r","i","m","a","r","y"," ","e","m","a","i","l">>,
      <<"e","m","a","i","l","_","1">>,
      <<"e","m","a","i","l"," ","1">>,
      <<"e","m","a","i","l","_","2">>,
      <<"e","m","a","i","l"," ","2">>,
      <<"p","e","r","s","o","n","a","l","_","e","m","a","i","l">>,
      <<"p","e","r","s","o","n","a","l"," ","e","m","a","i","l">>,
      <<"h","o","m","e","_","e","m","a","i","l">>,
      <<"h","o","m","e"," ","e","m","a","i","l">>,
      <<"o","f","f","i","c","e","_","e","m","a","i","l">>,
      <<"o","f","f","i","c","e"," ","e","m","a","i","l">>,
      <<"c","u","s","t","o","m","e","r","_","e","m","a","i","l">>,
      <<"c","u","s","t","o","m","e","r"," ","e","m","a","i","l">>,
      <<"c","l","i","e","n","t","_","e","m","a","i","l">>,
      <<"c","l","i","e","n","t"," ","e","m","a","i","l">>,
      <<"u","s","e","r","_","e","m","a","i","l">>,
      <<"u","s","e","r"," ","e","m","a","i","l">>,
      <<"e","m","p","l","o","y","e","e","_","e","m","a","i","l">>,
      <<"e","m","p","l","o","y","e","e"," ","e","m","a","i","l">>,
      <<"m","e","m","b","e","r","_","e","m","a","i","l">>,
      <<"m","e","m","b","e","r"," ","e","m","a","i","l">>,
      <<"s","u","b","s","c","r","i","b","e","r","_","e","m","a","i","l">>,
      <<"s","u","b","s","c","r","i","b","e","r"," ","e","m","a","i","l">>,
      <<"e","m","a","i","l","a","d","d","r","e","s","s">>,
      <<"e","m","a","i","l","_","a","d","d","r">>,
      <<"e","l","e","c","t","r","o","n","i","c","_","m","a","i","l">>,
      <<"e","l","e","c","t","r","o","n","i","c"," ","m","a","i","l">> }

\* re.match(pattern, str(col).strip().lower()) for one of the patterns
IsEmailHeader(col) == lower(strip(col, Whitespace)) \in EmailHeaderNames

\* The header-based part of get_all_email_columns.  The content-based part
\* adds a column only when two or more of its cells hold an address; the
\* other columns of the tables here hold none.
get_all_email_columns(sheet) == SelectSeq(sheet.columns, IsEmailHeader)

\* list(df.columns).index(col) + 1
ColumnNumber(columns, col) ==
    CHOOSE i \in 1..Len(columns) :
        columns[i] = col /\ \A j \in 1..(i - 1) : columns[j] # col

\* lines 81-85: the stripped str of the cell, "" for nan, None and ""
EmptyToBlank(raw_value) ==
    IF raw_value \in {Str_nan, Str_None, <<>>} THEN <<>> ELSE raw_value

RawValue(cell) == EmptyToBlank(strip(cell, Whitespace))

\* lines 79-96: the entries of one email column, one per row
ColumnEntries(sheet, col_number, email_col) ==
    [r \in 1..Len(sheet.rows) |->
        EmailEntry(sheet.name, r, col_number, email_col,
                   RawValue(sheet.rows[r][col_number]))]

\* lines 69-102
SheetEntries(sheet, email_columns) ==
    Flatten([k \in 1..Len(email_columns) |->
                ColumnEntries(sheet, ColumnNumber(sheet.columns, email_columns[k]),
                              email_columns[k])])

\* extract_all_emails(file_data)['email_entries']
extract_all_emails(data) ==
    Flatten([s \in 1..Len(data) |->
                SheetEntries(data[s], get_all_email_columns(data[s]))])

\* the number of elements of seq that satisfy Test
CountWhere(seq, Test(_)) == Cardinality({i \in 1..Len(seq) : Test(seq[i])})

\* extraction_results['non_empty_entries']
non_empty_entries(all_entries) == CountWhere(all_entries, LAMBDA e : ~is_empty(e))

(***************************************************************************)
(* EmailProcessor (src/core/processor.py)                                  *)
(***************************************************************************)
\* canonical_key(...) or email.lower()
KeyOrLower(key, e) ==
    IF ~IsNone(key) /\ Value(key) # <<>> THEN Value(key) ELSE lower(e)

_get_canonical_key(e, provider_aware) ==
    KeyOrLower(canonical_key(e, provider_aware), e)

_process_email(original_email, opts) ==
    _map_result_to_format(original_email,
        validate_email_deterministic(original_email, opts.exclude_role_accounts,
                                     opts.refs))

\* lines 59-64
ApplyDecision(entry, d) ==
    [entry EXCEPT !.cleaned = d.output_email,
                  !.action = d.action,
                  !.confidence = d.confidence,
                  !.changed = d.changed,
                  !.reason = d.reason,
                  !.canonical_key = _get_canonical_key(d.output_email, TRUE)]

\* lines 52-64, for one entry
ProcessEntry(entry, opts) ==
    IF is_empty(entry) THEN entry
    ELSE ApplyDecision(entry, _process_email(entry.raw, opts))

\* lines 76-85 and 91-100: the position and the outcome of an entry
ReportRow(e) ==
    [sheet |-> e.sheet,
     row_number |-> e.row_number,
     col_number |-> e.col_number,
     col_name |-> e.col_name,
     original_email |-> e.raw,
     new_email |-> e.cleaned,
     reason |-> e.reason,
     confidence |-> e.confidence]

ReportRows(selected) == [i \in 1..Len(selected) |-> ReportRow(selected[i])]

\* lines 66-100, on the entries as the loop leaves them
ProcessingReturn(done) ==
    [results |->
        [accepted |-> CountWhere(done, LAMBDA e :
                          ~is_empty(e) /\ e.action \in {"accept", "fix_auto"}
                          /\ ~e.changed),
         fixed |-> CountWhere(done, LAMBDA e :
                          ~is_empty(e) /\ e.action \in {"accept", "fix_auto"}
                          /\ e.changed),
         removed |-> CountWhere(done, LAMBDA e :
                          ~is_empty(e) /\ e.action = "remove"),
         total_processed |-> CountWhere(done, LAMBDA e : ~is_empty(e))],
     changes_report |->
        ReportRows(SelectSeq(done, LAMBDA e : ~is_empty(e) /\ e.changed)),
     rejected_report |->
        ReportRows(SelectSeq(done, LAMBDA e : ~is_empty(e) /\ e.action = "remove"))]

\* the entries after process_email_entries has updated them in place
ProcessedEntries(all_entries, opts) ==
    [i \in 1..Len(all_entries) |-> ProcessEntry(all_entries[i], opts)]

(***************************************************************************)
(* ArrayEmailDeduplicator.deduplicate_entries (src/app/array_dedupe.py)    *)
(***************************************************************************)
\* (sheet, n1, n2) < (sheet', n1', n2') in Python's tuple order
TupleLess(a, b) ==
    \/ StrLess(a[1], b[1])
    \/ a[1] = b[1] /\ a[2] < b[2]
    \/ a[1] = b[1] /\ a[2] = b[2] /\ a[3] < b[3]

\* the place of items[i] in sorted(items, key=...): sorted is stable
SortRank(sort_keys, i) ==
    1 + Cardinality({j \in 1..Len(sort_keys) :
                        \/ TupleLess(sort_keys[j], sort_keys[i])
                        \/ j < i /\ ~TupleLess(sort_keys[i], sort_keys[j])})

\* the ranks of all the items, as a tuple
SortRanks(sort_keys) ==
    [i \in 1..Len(sort_keys) |-> SortRank(sort_keys, i)] \o <<>>

\* each item at the place its rank gives it
PlaceByRank(items, ranks) ==
    [k \in 1..Len(items) |-> items[CHOOSE i \in 1..Len(items) : ranks[i] = k]]

\* sorted(items, key=lambda x: sort_keys[index of x])
sorted(items, sort_keys) == PlaceByRank(items, SortRanks(sort_keys))

\* line 50: the sort key of an entry
EntryKey(e) == <<e.sheet, e.row_number, e.col_number>>

\* every non-empty entry, the suppressed ones included
IsValidEntry_AnyAction(e) == ~is_empty(e)

\* line 31
IsValidEntry(e) == ~is_empty(e) /\ e.action # "remove"

\* lines 35-38: the key is generated only where it is not set
WithCanonicalKey(e, provider_aware) ==
    IF ~IsValidEntry(e) \/ e.canonical_key # <<>> THEN e
    ELSE IF e.cleaned # <<>>
    THEN [e EXCEPT !.canonical_key = _get_canonical_key(e.cleaned, provider_aware)]
    ELSE IF e.raw # <<>>
    THEN [e EXCEPT !.canonical_key = _get_canonical_key(e.raw, provider_aware)]
    ELSE e

\* lines 33-41: the indices of the entries appended to a group, in list order
GroupedIndices(keyed) ==
    SelectSeq([i \in 1..Len(keyed) |-> i],
              LAMBDA i : IsValidEntry(keyed[i]) /\ keyed[i].canonical_key # <<>>)

\* the first member of each group, in the order the dict got its keys
GroupHeads(keyed, grouped) ==
    SelectSeq(grouped,
              LAMBDA i : \A k \in 1..Len(grouped) :
                  grouped[k] < i => keyed[grouped[k]].canonical_key # keyed[i].canonical_key)

\* canonical_groups.items(): each group as the list of its members' indices
GroupMembers(keyed, grouped, heads) ==
    [g \in 1..Len(heads) |->
        SelectSeq(grouped,
                  LAMBDA i : keyed[i].canonical_key = keyed[heads[g]].canonical_key)]

GroupsOf(keyed, grouped) == GroupMembers(keyed, grouped, GroupHeads(keyed, grouped))

canonical_groups(keyed) == GroupsOf(keyed, GroupedIndices(keyed))

\* the group in the order of its members in the list, never sorted
SortGroup_InputOrder(keyed, group) == group

\* line 50
SortGroup(keyed, group) ==
    sorted(group, [k \in 1..Len(group) |-> EntryKey(keyed[group[k]])])

\* lines 47-52: the sorted groups of more than one member
SortedGroups(keyed, multi) ==
    [g \in 1..Len(multi) |-> SortGroup(keyed, multi[g])]

DuplicateGroups(keyed, groups) ==
    SortedGroups(keyed, SelectSeq(groups, LAMBDA group : Len(group) > 1))

\* lines 62-75: where an entry is and the email it holds
PositionOf(e) ==
    [sheet |-> e.sheet,
     row_number |-> e.row_number,
     col_number |-> e.col_number,
     col_name |-> e.col_name,
     email |-> IF e.cleaned # <<>> THEN e.cleaned ELSE e.raw]

\* lines 60-77
DuplicateEntry(keyed, sorted_group) ==
    [canonical_key |-> keyed[sorted_group[1]].canonical_key,
     keeper |-> PositionOf(keyed[sorted_group[1]]),
     duplicates |-> [k \in 1..(Len(sorted_group) - 1) |->
                        PositionOf(keyed[sorted_group[k + 1]])],
     duplicate_count |-> Len(sorted_group) - 1]

\* the indices of sorted_group[1:] of every group
DuplicateIndices(sorted_groups) ==
    UNION {{sorted_groups[g][k] : k \in 2..Len(sorted_groups[g])} :
              g \in 1..Len(sorted_groups)}

RECURSIVE SumCounts(_)
SumCounts(report) ==
    IF report = <<>> THEN 0
    ELSE Len(Head(report).duplicates) + SumCounts(Tail(report))

\* the list with the duplicates deleted from it
DedupeReturn_DeleteDuplicates(keyed, sorted_groups, report) ==
    [entries |-> SelectSeq(keyed, LAMBDA e :
                    \A i \in DuplicateIndices(sorted_groups) : keyed[i] # e),
     duplicates_report |-> report,
     duplicate_positions |->
         {<<keyed[i].sheet, keyed[i].row_number>> : i \in DuplicateIndices(sorted_groups)},
     total_duplicates_removed |-> SumCounts(report)]

\* lines 54-57 and 81-85; entries is the list as the method leaves it
DedupeReturn(keyed, sorted_groups, report) ==
    [entries |-> [i \in 1..Len(keyed) |->
                    IF i \in DuplicateIndices(sorted_groups)
                    THEN [keyed[i] EXCEPT !.action = "duplicate"]
                    ELSE keyed[i]],
     duplicates_report |-> report,
     duplicate_positions |->
         {<<keyed[i].sheet, keyed[i].row_number>> : i \in DuplicateIndices(sorted_groups)},
     total_duplicates_removed |-> SumCounts(report)]

DedupeGroups(keyed, sorted_groups) ==
    DedupeReturn(keyed, sorted_groups,
        [g \in 1..Len(sorted_groups) |-> DuplicateEntry(keyed, sorted_groups[g])])

DedupeKeyed(keyed) ==
    DedupeGroups(keyed, DuplicateGroups(keyed, canonical_groups(keyed)))

deduplicate_entries(all_entries, provider_aware) ==
    DedupeKeyed([i \in 1..Len(all_entries) |->
                    WithCanonicalKey(all_entries[i], provider_aware)])

(***************************************************************************)
(* Writing the results back into the sheets                                *)
(***************************************************************************)
\* updated_df.iloc[row_idx, updated_df.columns.get_loc(entry.col_name)] = value
\* under the test 0 <= row_idx < len(updated_df)
SetCell(sheet, e, value) ==
    IF 0 <= e.row_number - 1 /\ e.row_number - 1 < Len(sheet.rows)
    THEN [sheet EXCEPT !.rows[e.row_number][ColumnNumber(sheet.columns, e.col_name)] = value]
    ELSE sheet

\* processor.py lines 171-180
UpdateCell(sheet, e) ==
    IF ~is_empty(e) /\ e.action # "remove" THEN SetCell(sheet, e, e.cleaned)
    ELSE IF e.action = "remove" THEN SetCell(sheet, e, <<>>)
    ELSE sheet

RECURSIVE UpdateCells(_, _)
UpdateCells(sheet, sheet_entries) ==
    IF sheet_entries = <<>> THEN sheet
    ELSE UpdateCells(UpdateCell(sheet, Head(sheet_entries)), Tail(sheet_entries))

update_dataframes_with_cleaned_emails(data, all_entries) ==
    [s \in 1..Len(data) |->
        UpdateCells(data[s],
            SelectSeq(all_entries,
                      LAMBDA e : e.sheet = data[s].name /\ ~is_duplicate(e)))]

\* the duplicate rows dropped from the sheet instead of blanked
RowsAt(rows, kept) == [k \in 1..Len(kept) |-> rows[kept[k]]]

BlankSheet_DropRows(sheet, duplicate_positions) ==
    [sheet EXCEPT !.rows =
        RowsAt(sheet.rows,
               SelectSeq([r \in 1..Len(sheet.rows) |-> r],
                         LAMBDA r : <<sheet.name, r>> \notin duplicate_positions))]

\* array_dedupe.py lines 126-135
BlankSheet(sheet, duplicate_positions) ==
    [sheet EXCEPT !.rows =
        [r \in 1..Len(sheet.rows) |->
            IF <<sheet.name, r>> \in duplicate_positions
            THEN [c \in 1..Len(sheet.rows[r]) |-> <<>>]
            ELSE sheet.rows[r]]]

blank_duplicate_rows(data, duplicate_positions) ==
    [s \in 1..Len(data) |-> BlankSheet(data[s], duplicate_positions)]

(***************************************************************************)
(* Specification SpecPipeline: EmailValidationPipeline.process_file        *)
(* (src/core/pipeline.py) from the loaded file to the blanked sheets       *)
(***************************************************************************)
MaxRows == 2

Str_S2 == <<"S","2">>
Str_S10 == <<"S","1","0">>
Str_Email == <<"E","m","a","i","l">>
Str_work_email == <<"w","o","r","k","_","e","m","a","i","l">>
Str_name == <<"n","a","m","e">>

\* what an email cell of the loaded file holds
PipeCells ==
    { Str_nan,
      <<" ","a","n","n","a","@","g","m","a","i","l",".","c","o","m">>,
      <<"a","n",".","n","a","+","x","@","g","m","a","i","l",".","c","o","m">>,
      <<"n","o","p","e","@","@","d","o","m","a","i","n",".","c","o","m">>,
      <<"s","a","l","e","s","@","c","o","m","p","a","n","y",".","c","o","n">>,
      <<"a","n","n","a","@","U+0430","p","p","l","e",".","c","o","m">> }

\* a sheet with two email columns and two rows
WideSheets ==
    {[name |-> Str_S2,
      columns |-> <<Str_name, Str_Email, Str_work_email>>,
      rows |-> << <<<<"x">>, a, b>>, <<<<"y">>, c, d>> >>] :
        a \in PipeCells, b \in PipeCells, c \in PipeCells, d \in PipeCells}

\* the sheets called name with one email column and the given cells in it
NarrowSheet(name, cells) ==
    [name |-> name,
     columns |-> <<Str_Email, Str_name>>,
     rows |-> [r \in 1..Len(cells) |-> <<cells[r], <<"x">>>>]]

\* the files: one wide sheet, or sheet S2 followed by a one-row sheet S10
PipeFiles ==
    {<<w>> : w \in WideSheets}
    \cup {<<NarrowSheet(Str_S2, cells), NarrowSheet(Str_S10, <<c>>)>> :
              cells \in UNION {[1..n -> PipeCells] : n \in 1..MaxRows},
              c \in PipeCells}

PipeOptions ==
    [exclude_role_accounts : BOOLEAN,
     provider_aware_dedup : BOOLEAN,
     refs : {DefaultRefs}]

PipeInit ==
    /\ pc = "loaded"
    /\ file_data \in PipeFiles
    /\ options \in PipeOptions
    /\ entries = <<>>
    /\ processing = <<>>
    /\ dedupe_results = <<>>
    /\ cleaned_data = <<>>
    /\ final_data = <<>>
    /\ email = <<>>
    /\ result = <<>>
    /\ decision = <<>>
    /\ NormIdle
    /\ SheetIdle
    /\ KeyIdle
    /\ RecIdle

\* Step 2 of process_file; with no address in the file it raises ValueError
ExtractAllEmails ==
    /\ pc = "loaded"
    /\ entries' = extract_all_emails(file_data)
    /\ pc' = IF non_empty_entries(entries') = 0 THEN "failed" ELSE "extracted"
    /\ UNCHANGED <<email, sheetVars, normVars, valVars, keyVars, recVars, file_data,
                   processing, dedupe_results, cleaned_data, final_data>>

\* Step 3: process_email_entries(all_entries)
ProcessEmailEntries ==
    /\ pc = "extracted"
    /\ entries' = ProcessedEntries(entries, options)
    /\ processing' = ProcessingReturn(entries')
    /\ pc' = "processed"
    /\ UNCHANGED <<email, sheetVars, normVars, valVars, keyVars, recVars, file_data,
                   dedupe_results, cleaned_data, final_data>>

\* Step 4: deduplicate_entries(all_entries)
DeduplicateEntries ==
    /\ pc = "processed"
    /\ dedupe_results' = deduplicate_entries(entries, options.provider_aware_dedup)
    /\ entries' = dedupe_results'.entries
    /\ pc' = "deduplicated"
    /\ UNCHANGED <<email, sheetVars, normVars, valVars, keyVars, recVars, file_data,
                   processing, cleaned_data, final_data>>

\* Step 6: update_dataframes_with_cleaned_emails(file_data, all_entries)
UpdateDataframes ==
    /\ pc = "deduplicated"
    /\ file_data # <<>>
    /\ cleaned_data' = update_dataframes_with_cleaned_emails(file_data, entries)
    /\ pc' = "updated"
    /\ UNCHANGED <<email, sheetVars, normVars, valVars, keyVars, recVars, file_data,
                   entries, processing, dedupe_results, final_data>>

\* Step 7: blank_duplicate_rows(cleaned_data_with_emails, duplicate_positions)
BlankDuplicateRows ==
    /\ pc = "updated"
    /\ final_data' = blank_duplicate_rows(cleaned_data,
                                          dedupe_results.duplicate_positions)
    /\ pc' = "blanked"
    /\ UNCHANGED <<email, sheetVars, normVars, valVars, keyVars, recVars, file_data,
                   entries, processing, dedupe_results, cleaned_data>>

PipeNext ==
    \/ ExtractAllEmails
    \/ ProcessEmailEntries
    \/ DeduplicateEntries
    \/ UpdateDataframes
    \/ BlankDuplicateRows

SpecPipeline == PipeInit /\ [][PipeNext]_vars

\* C1: after process_email_entries, every processed (non-empty) entry has a
\* non-empty canonical_key if and only if its action is not 'remove'.
C1_KeyIffNotRemoved ==
    pc = "processed" =>
        \A i \in 1..Len(entries) :
            ~is_empty(entries[i]) =>
                ((entries[i].canonical_key # <<>>) <=> (entries[i].action # "remove"))

\* C9: in the result of blank_duplicate_rows every row in
\* duplicate_positions has every column empty, every other row is
\* unchanged, and the sheets keep their rows in number and order.
C9_BlankKeepsRows ==
    pc = "blanked" =>
        /\ Len(final_data) = Len(cleaned_data)
        /\ \A s \in 1..Len(cleaned_data) :
              /\ final_data[s].name = cleaned_data[s].name
              /\ final_data[s].columns = cleaned_data[s].columns
              /\ Len(final_data[s].rows) = Len(cleaned_data[s].rows)
              /\ \A r \in 1..Len(cleaned_data[s].rows) :
                    IF <<cleaned_data[s].name, r>> \in dedupe_results.duplicate_positions
                    THEN /\ Len(final_data[s].rows[r]) = Len(cleaned_data[s].columns)
                         /\ \A c \in 1..Len(final_data[s].rows[r]) :
                               final_data[s].rows[r][c] = <<>>
                    ELSE final_data[s].rows[r] = cleaned_data[s].rows[r]

\* a sheet whose first row was blanked, name column included, while its
\* second row still holds what it held
C9_RowBlankedRowKept ==
    /\ pc = "blanked"
    /\ \E s \in 1..Len(final_data) :
          /\ Len(final_data[s].rows) = 2
          /\ <<final_data[s].name, 1>> \in dedupe_results.duplicate_positions
          /\ <<final_data[s].name, 2>> \notin dedupe_results.duplicate_positions
          /\ \E c \in 1..Len(cleaned_data[s].rows[1]) :
                cleaned_data[s].rows[1][c] = <<"x">>
          /\ \A c \in 1..Len(final_data[s].rows[1]) : final_data[s].rows[1][c] = <<>>
          /\ \E c \in 1..Len(final_data[s].rows[2]) : final_data[s].rows[2][c] # <<>>

(***************************************************************************)
(* Specification SpecDedupe: process_email_entries and deduplicate_entries *)
(* on entry lists in every order                                           *)
(***************************************************************************)
MaxEntries == 3

\* (sheet, row_number, col_number) of the entries
DedupePositions ==
    { <<Str_S10, 2, 1>>, <<Str_S2, 1, 1>>, <<Str_S2, 1, 2>>, <<Str_S2, 2, 1>> }

DedupeRaws ==
    { <<"a","n","n","a","@","g","m","a","i","l",".","c","o","m">>,
      <<"a","n",".","n","a","@","g","m","a","i","l",".","c","o","m">>,
      <<"b","o","b","@","c","o","m","p","a","n","y",".","c","o","m">>,
      <<"n","o","p","e","@","@","g","m","a","i","l",".","c","o","m">>,
      <<>> }

\* the lists of up to MaxEntries entries at different positions, in any order
EntryLists ==
    UNION {{[i \in 1..n |->
                EmailEntry(ps[i][1], ps[i][2], ps[i][3],
                           IF ps[i][3] = 1 THEN Str_Email ELSE Str_work_email,
                           rs[i])] :
               ps \in {q \in [1..n -> DedupePositions] :
                          \A i, j \in 1..n : i # j => q[i] # q[j]},
               rs \in [1..n -> DedupeRaws]} :
           n \in 1..MaxEntries}

DedupeInit ==
    /\ pc = "extracted"
    /\ entries \in EntryLists
    /\ options \in [exclude_role_accounts : {FALSE},
                     provider_aware_dedup : BOOLEAN,
                     refs : {DefaultRefs}]
    /\ file_data = <<>>
    /\ processing = <<>>
    /\ dedupe_results = <<>>
    /\ cleaned_data = <<>>
    /\ final_data = <<>>
    /\ email = <<>>
    /\ result = <<>>
    /\ decision = <<>>
    /\ NormIdle
    /\ SheetIdle
    /\ KeyIdle
    /\ RecIdle

\* deduplicate_entries on entries no processor has touched
DeduplicateUnprocessed ==
    /\ pc = "extracted"
    /\ dedupe_results' = deduplicate_entries(entries, options.provider_aware_dedup)
    /\ entries' = dedupe_results'.entries
    /\ pc' = "deduplicated"
    /\ UNCHANGED <<email, sheetVars, normVars, valVars, keyVars, recVars, file_data,
                   processing, cleaned_data, final_data>>

DedupeNext ==
    \/ ProcessEmailEntries
    \/ DeduplicateEntries
    \/ DeduplicateUnprocessed

SpecDedupe == DedupeInit /\ [][DedupeNext]_vars

\* the entries deduplicate_entries groups, and those that share a key
InGroup(i) == IsValidEntry(entries[i]) /\ entries[i].canonical_key # <<>>

SameGroup(i, j) ==
    InGroup(i) /\ InGroup(j) /\ entries[i].canonical_key = entries[j].canonical_key

\* C3: keeper stability: whatever the order of the list, the keeper of
\* each duplicate group is the member with the smallest (sheet, row_number,
\* col_number), every key held by two or more entries has one group, and
\* the entries marked 'duplicate' are the members that are not the
\* smallest of their group, a set that depends on no order.
C3_KeeperStability ==
    pc = "deduplicated" =>
        /\ \A g \in 1..Len(dedupe_results.duplicates_report) :
              \E i \in 1..Len(entries) :
                 /\ InGroup(i)
                 /\ entries[i].canonical_key =
                        dedupe_results.duplicates_report[g].canonical_key
                 /\ <<dedupe_results.duplicates_report[g].keeper.sheet,
                      dedupe_results.duplicates_report[g].keeper.row_number,
                      dedupe_results.duplicates_report[g].keeper.col_number>>
                        = EntryKey(entries[i])
                 /\ \A j \in 1..Len(entries) :
                       SameGroup(i, j) => ~TupleLess(EntryKey(entries[j]),
                                                     EntryKey(entries[i]))
        /\ \A i, j \in 1..Len(entries) :
              (i # j /\ SameGroup(i, j)) =>
                  Cardinality({g \in 1..Len(dedupe_results.duplicates_report) :
                      dedupe_results.duplicates_report[g].canonical_key
                          = entries[i].canonical_key}) = 1
        /\ \A i \in 1..Len(entries) :
              (entries[i].action = "duplicate") <=>
                  \E j \in 1..Len(entries) :
                      /\ SameGroup(i, j)
                      /\ TupleLess(EntryKey(entries[j]), EntryKey(entries[i]))

\* a list in which a duplicate stands before the keeper of its group
C3_KeeperAfterDuplicate ==
    /\ pc = "deduplicated"
    /\ Len(dedupe_results.duplicates_report) = 1
    /\ \E i, j \in 1..Len(entries) :
          /\ i < j
          /\ SameGroup(i, j)
          /\ entries[i].action = "duplicate"
          /\ entries[j].action # "duplicate"
          /\ dedupe_results.duplicates_report[1].keeper.row_number
                = entries[j].row_number
          /\ dedupe_results.duplicates_report[1].keeper.sheet = entries[j].sheet

(***************************************************************************)
(* EmailDeduplicator (src/app/dedupe.py)                                   *)
(***************************************************************************)
\* line 94: above this many non-removed rows the pairs are not compared
NearDupCeiling == 1000

\* line 23
generate_canonical_key(e, provider_aware) ==
    KeyOrLower(canonical_key(e, provider_aware), e)

Abs(n) == IF n < 0 THEN -n ELSE n

\* lines 147-150: one row of the edit-distance table, cell by cell
RECURSIVE EditRow(_, _, _, _)
EditRow(previous_row, c1, s2, current_row) ==
    IF Len(current_row) = Len(s2) + 1 THEN current_row
    ELSE EditRow(previous_row, c1, s2,
             Append(current_row,
                 Min(Min(previous_row[Len(current_row) + 1] + 1,
                         current_row[Len(current_row)] + 1),
                     previous_row[Len(current_row)]
                         + (IF c1 # s2[Len(current_row)] THEN 1 ELSE 0))))

\* lines 144-151: the rows of the table, one for each character of s1
RECURSIVE EditRows(_, _, _, _)
EditRows(s1, s2, i, previous_row) ==
    IF i > Len(s1) THEN previous_row
    ELSE EditRows(s1, s2, i + 1, EditRow(previous_row, s1[i], s2, <<i>>))

\* lines 140-153, for len(s1) >= len(s2)
EditDistanceOrdered(s1, s2) ==
    IF Len(s2) = 0 THEN Len(s1)
    ELSE EditRows(s1, s2, 1, [j \in 1..(Len(s2) + 1) |-> j - 1])[Len(s2) + 1]

\* lines 135-153
_edit_distance(s1, s2) ==
    IF Len(s1) < Len(s2) THEN EditDistanceOrdered(s2, s1)
    ELSE EditDistanceOrdered(s1, s2)

\* the place of the last c in s, 0 when s holds none
LastIndexOf(s, c) ==
    IF ~contains(s, c) THEN 0
    ELSE CHOOSE i \in 1..Len(s) :
            s[i] = c /\ \A j \in (i + 1)..Len(s) : s[j] # c

\* e.rsplit('@', 1)
rsplit_at(e) ==
    [local |-> SubSeq(e, 1, LastIndexOf(e, "@") - 1),
     domain |-> SubSeq(e, LastIndexOf(e, "@") + 1, Len(e))]

\* the local parts compared at one domain, the domains never on their own
NearParts_LocalOnly(p1, p2) ==
    /\ lower(p1.domain) = lower(p2.domain)
    /\ _edit_distance(lower(p1.local), lower(p2.local)) <= 2
    /\ Abs(Len(p1.local) - Len(p2.local)) <= 2

\* lines 122-133
NearParts(p1, p2) ==
    \/ /\ _edit_distance(lower(p1.domain), lower(p2.domain)) <= 2
       /\ Abs(Len(p1.domain) - Len(p2.domain)) <= 2
    \/ /\ lower(p1.domain) = lower(p2.domain)
       /\ _edit_distance(lower(p1.local), lower(p2.local)) <= 2
       /\ Abs(Len(p1.local) - Len(p2.local)) <= 2

\* lines 111-133
_are_near_duplicates(email1, email2) ==
    /\ contains(email1, "@")
    /\ contains(email2, "@")
    /\ NearParts(rsplit_at(email1), rsplit_at(email2))

\* line 157: the ratio in hundredths, as a fraction
_calculate_similarity(email1, email2) ==
    DifflibRatio(lower(email1), lower(email2))

\* the lists ss[lo], ..., ss[hi] one after the other
RECURSIVE FlattenRange(_, _, _)
FlattenRange(ss, lo, hi) ==
    IF lo > hi THEN <<>>
    ELSE IF lo = hi THEN ss[lo]
    ELSE FlattenRange(ss, lo, (lo + hi) \div 2)
            \o FlattenRange(ss, (lo + hi) \div 2 + 1, hi)

\* line 91: the rows that are compared
NonRemoved(rows) == SelectSeq(rows, LAMBDA row : row.action # "remove")

\* lines 99-100: the later rows that are near duplicates of row i
NearPairsFrom(emails, i) ==
    SelectSeq([k \in 1..(Len(emails) - i) |-> <<i, i + k>>],
              LAMBDA p : _are_near_duplicates(emails[p[1]].processed_email,
                                              emails[p[2]].processed_email))

\* lines 98-100: the near-duplicate pairs in the order of the two loops
NearPairs(emails) ==
    FlattenRange([i \in 1..Len(emails) |-> NearPairsFrom(emails, i)],
                 1, Len(emails))

\* lines 101-107
NearDuplicate(row1, row2) ==
    [email1 |-> row1.processed_email,
     email2 |-> row2.processed_email,
     row1 |-> [sheet |-> row1.sheet, row_index |-> row1.row_index],
     row2 |-> [sheet |-> row2.sheet, row_index |-> row2.row_index],
     similarity |-> _calculate_similarity(row1.processed_email,
                                          row2.processed_email)]

NearDuplicates(emails, pairs) ==
    [k \in 1..Len(pairs) |->
        NearDuplicate(emails[pairs[k][1]], emails[pairs[k][2]])]

\* lines 98-107
ComparePairs(emails) == NearDuplicates(emails, NearPairs(emails))

\* the comparison skipped from the ceiling on, not above it
NearDuplicatesOf_AtCeiling(emails) ==
    IF Len(emails) >= NearDupCeiling THEN <<>> ELSE ComparePairs(emails)

\* lines 93-109
NearDuplicatesOf(emails) ==
    IF Len(emails) > NearDupCeiling THEN <<>> ELSE ComparePairs(emails)

\* lines 83-109
_find_near_duplicates(rows) == NearDuplicatesOf(NonRemoved(rows))

\* lines 34-38: row['canonical_key'] is set where it is missing or empty
RecordWithKey(row, provider_aware) ==
    IF row.action = "remove" THEN row
    ELSE IF IsNone(row.canonical_key) \/ Value(row.canonical_key) = <<>>
    THEN [row EXCEPT !.canonical_key =
              Some(generate_canonical_key(row.processed_email, provider_aware))]
    ELSE row

\* processed_rows after the loop of lines 33-40, as a tuple
KeyedRecords(rows, provider_aware) ==
    [i \in 1..Len(rows) |-> RecordWithKey(rows[i], provider_aware)] \o <<>>

\* lines 33-40: the rows that are grouped, by their place in the list
RecordIndices(keyed) ==
    SelectSeq([i \in 1..Len(keyed) |-> i], LAMBDA i : keyed[i].action # "remove")

\* the first member of each group, in the order the dict got its keys
RecordHeads(keyed, grouped) ==
    SelectSeq(grouped,
              LAMBDA i : \A k \in 1..Len(grouped) :
                  grouped[k] < i => keyed[grouped[k]].canonical_key # keyed[i].canonical_key)

\* canonical_groups.items(): each group as the list of its members' places
RecordMembers(keyed, grouped, heads) ==
    [g \in 1..Len(heads) |->
        SelectSeq(grouped,
                  LAMBDA i : keyed[i].canonical_key = keyed[heads[g]].canonical_key)]

RecordGroups(keyed, grouped) ==
    RecordMembers(keyed, grouped, RecordHeads(keyed, grouped))

\* line 49: sorted by (sheet, row_index)
SortRecords(keyed, group) ==
    sorted(group, [k \in 1..Len(group) |->
                      <<keyed[group[k]].sheet, keyed[group[k]].row_index, 0>>])

\* lines 46-51: the sorted groups of more than one member
SortedRecordGroups(keyed, groups) ==
    [g \in 1..Len(groups) |-> SortRecords(keyed, groups[g])]

DuplicateRecordGroups(keyed, groups) ==
    SortedRecordGroups(keyed, SelectSeq(groups, LAMBDA group : Len(group) > 1))

\* lines 56-65
RowRef(row) ==
    [sheet |-> row.sheet, row_index |-> row.row_index, email |-> row.processed_email]

\* lines 54-67
DuplicateRecord(keyed, sorted_group) ==
    [canonical_key |-> Value(keyed[sorted_group[1]].canonical_key),
     keeper |-> RowRef(keyed[sorted_group[1]]),
     duplicates |-> [k \in 1..(Len(sorted_group) - 1) |->
                        RowRef(keyed[sorted_group[k + 1]])] \o <<>>,
     duplicate_count |-> Len(sorted_group) - 1]

\* lines 77-81; canonical_mapping as its items, in the order they were set
RecordsReturn(keyed, groups) ==
    [duplicates_report |->
        [g \in 1..Len(groups) |-> DuplicateRecord(keyed, groups[g])],
     near_duplicates |-> _find_near_duplicates(keyed),
     canonical_mapping |->
        [g \in 1..Len(groups) |->
            [canonical_key |-> Value(keyed[groups[g][1]].canonical_key),
             keeper |-> keyed[groups[g][1]]]]]

RecordsKeyed(keyed) ==
    RecordsReturn(keyed,
        DuplicateRecordGroups(keyed, RecordGroups(keyed, RecordIndices(keyed))))

\* lines 25-81
deduplicate_records(rows, provider_aware) ==
    RecordsKeyed(KeyedRecords(rows, provider_aware))

(***************************************************************************)
(* deduplicate_records on the rows _process_sheet collects                 *)
(* (src/app/pipeline.py, src/app/dedupe.py)                                *)
(***************************************************************************)
MaxRecordRows == 2

Str_anna == <<"a","n","n","a","@","g","m","a","i","l",".","c","o","m">>
Str_an_na == <<"a","n",".","n","a","@","g","m","a","i","l",".","c","o","m">>
Str_bob == <<"b","o","b","@","c","o","m","p","a","n","y",".","c","o","m">>
Str_bob_con == <<"b","o","b","@","c","o","m","p","a","n","y",".","c","o","n">>
Str_margaret == <<"m","a","r","g","a","r","e","t","@","g","m","a","i","l",".","c","o","m">>
Str_carl == <<"c","a","r","l","@","m","a","i","l",".","c","o","m">>

\* src/app/pipeline.py lines 132-139: a row without an email
SkippedRow(sheet, idx) ==
    [sheet |-> sheet,
     row_index |-> idx,
     original_email |-> <<>>,
     processed_email |-> <<>>,
     action |-> "skip_empty",
     confidence |-> 1000,
     canonical_key |-> None]

\* src/app/pipeline.py lines 155-163: a row the router decided on
DecidedRow(sheet, idx, d, provider_aware) ==
    [sheet |-> sheet,
     row_index |-> idx,
     original_email |-> d.original_email,
     processed_email |-> d.output_email,
     action |-> d.action,
     confidence |-> d.confidence,
     canonical_key |-> Some(generate_canonical_key(d.output_email, provider_aware))]

AnnaAccepted ==
    [original_email |-> Str_anna, output_email |-> Str_anna,
     action |-> "accept", confidence |-> 950]

AnNaAccepted ==
    [original_email |-> Str_an_na, output_email |-> Str_an_na,
     action |-> "accept", confidence |-> 950]

BobFixed ==
    [original_email |-> Str_bob_con, output_email |-> Str_bob,
     action |-> "fix", confidence |-> 900]

AnnaRemoved ==
    [original_email |-> Str_anna, output_email |-> Str_anna,
     action |-> "remove", confidence |-> 300]

MargaretAccepted ==
    [original_email |-> Str_margaret, output_email |-> Str_margaret,
     action |-> "accept", confidence |-> 950]

CarlAccepted ==
    [original_email |-> Str_carl, output_email |-> Str_carl,
     action |-> "accept", confidence |-> 950]

\* a cell without an email: no decision is made, the row is skipped
NoEmail ==
    [original_email |-> <<>>, output_email |-> <<>>,
     action |-> "skip_empty", confidence |-> 1000]

\* what the loop of _process_sheet meets in a row
RowKinds ==
    {AnnaAccepted, AnNaAccepted, BobFixed, AnnaRemoved, NoEmail,
     MargaretAccepted, CarlAccepted}

SheetRow(sheet, idx, kind, provider_aware) ==
    IF kind.action = "skip_empty" THEN SkippedRow(sheet, idx)
    ELSE DecidedRow(sheet, idx, kind, provider_aware)

\* the rows of one sheet: df.iterrows() numbers them from 0
SheetRows(sheet, kinds, provider_aware) ==
    [i \in 1..Len(kinds) |-> SheetRow(sheet, i - 1, kinds[i], provider_aware)]

\* src/app/pipeline.py: sheet S2 with up to MaxRecordRows rows, then sheet
\* S10 with at most one
SmallRowLists(provider_aware) ==
    UNION {{SheetRows(Str_S2, k2, provider_aware)
                \o SheetRows(Str_S10, k10, provider_aware) :
               k2 \in [1..n -> RowKinds], k10 \in [1..m -> RowKinds]} :
           n \in 0..MaxRecordRows, m \in 0..1}

\* the first rows of a long sheet, the rest of which holds no email
LongHead(first, provider_aware, n) ==
    [i \in 1..n |->
        IF i <= Len(first) THEN SheetRow(Str_S2, i - 1, first[i], provider_aware)
        ELSE SkippedRow(Str_S2, i - 1)] \o <<>>

\* long sheets with NearDupCeiling or NearDupCeiling + 1 rows not removed
LongRowLists(provider_aware) ==
    { LongHead(<<AnnaRemoved>>, provider_aware, NearDupCeiling + 1),
      LongHead(<<AnnaAccepted, AnNaAccepted>>, provider_aware, NearDupCeiling),
      LongHead(<<AnnaAccepted, AnNaAccepted>>, provider_aware, NearDupCeiling + 1) }

\* src/app/pipeline.py lines 124 and 194-198: the index of cleaned_df, the
\* copy of the sheet from which the removed rows were dropped
CleanedFrame(rows, sheet) ==
    [name |-> sheet,
     index |-> LET kept == SelectSeq(rows, LAMBDA row :
                               row.sheet = sheet /\ row.action # "remove")
               IN  [k \in 1..Len(kept) |-> kept[k].row_index] \o <<>>]

\* src/app/pipeline.py lines 76-91: processed_sheets, one frame for each
\* sheet with an email column
CleanedFrames(rows) ==
    <<CleanedFrame(rows, Str_S2), CleanedFrame(rows, Str_S10)>>

\* src/app/pipeline.py lines 217-221: the (sheet, row_index) to remove
DuplicatesToRemove(report) ==
    UNION {{<<report[g].duplicates[k].sheet, report[g].duplicates[k].row_index>> :
               k \in 2..Len(report[g].duplicates)} : g \in 1..Len(report)}

\* src/app/pipeline.py lines 225-237: df.drop(rows_to_remove, errors='ignore')
DropRows(frame, to_remove) ==
    [frame EXCEPT !.index =
        SelectSeq(frame.index, LAMBDA idx : <<frame.name, idx>> \notin to_remove)]

\* src/app/pipeline.py lines 211-239
_apply_deduplication(processed_sheets, dedupe) ==
    [s \in 1..Len(processed_sheets) |->
        DropRows(processed_sheets[s], DuplicatesToRemove(dedupe.duplicates_report))]

RecordsInit ==
    /\ pc = "sheets_processed"
    /\ options \in [provider_aware : BOOLEAN]
    /\ processed_rows \in
          SmallRowLists(options.provider_aware)
              \cup (IF options.provider_aware
                    THEN LongRowLists(options.provider_aware) ELSE {})
    /\ records_report = <<>>
    /\ final_sheets = <<>>
    /\ email = <<>>
    /\ result = <<>>
    /\ decision = <<>>
    /\ NormIdle
    /\ SheetIdle
    /\ KeyIdle
    /\ PipeIdle

\* src/app/pipeline.py: dedupe_results = deduplicate_records(all_processed_rows)
DeduplicateRecords ==
    /\ pc = "sheets_processed"
    /\ pc' = "records_deduplicated"
    /\ records_report' = deduplicate_records(processed_rows, options.provider_aware)
    /\ processed_rows' = KeyedRecords(processed_rows, options.provider_aware)
    /\ UNCHANGED <<email, sheetVars, options, normVars, valVars, keyVars, pipeVars,
                   final_sheets>>

\* src/app/pipeline.py line 104: final_sheets = _apply_deduplication(...)
ApplyDeduplication ==
    /\ pc = "records_deduplicated"
    /\ pc' = "deduplication_applied"
    /\ final_sheets' = _apply_deduplication(CleanedFrames(processed_rows),
                                            records_report)
    /\ UNCHANGED <<email, sheetVars, options, normVars, valVars, keyVars, pipeVars,
                   processed_rows, records_report>>

RecordsNext == DeduplicateRecords \/ ApplyDeduplication

SpecRecords == RecordsInit /\ [][RecordsNext]_vars

\* the rows deduplicate_records considers, and their number
Considered(i) == processed_rows[i].action # "remove"

ConsideredCount == Cardinality({i \in 1..Len(processed_rows) : Considered(i)})

SameRecordKey(i, j) ==
    /\ Considered(i)
    /\ Considered(j)
    /\ processed_rows[i].canonical_key = processed_rows[j].canonical_key

RecordPlace(i) == <<processed_rows[i].sheet, processed_rows[i].row_index, 0>>

NearRows(i, j) ==
    /\ Considered(i)
    /\ Considered(j)
    /\ _are_near_duplicates(processed_rows[i].processed_email,
                            processed_rows[j].processed_email)

Reported(i, j) ==
    \E k \in 1..Len(records_report.near_duplicates) :
       /\ records_report.near_duplicates[k].row1 =
              [sheet |-> processed_rows[i].sheet,
               row_index |-> processed_rows[i].row_index]
       /\ records_report.near_duplicates[k].row2 =
              [sheet |-> processed_rows[j].sheet,
               row_index |-> processed_rows[j].row_index]

\* C10: near-duplicate ceiling: with more than 1000 rows that are not
\* removed, deduplicate_records reports no near-duplicate pair, and the
\* exact-duplicate report is what it is for any list: one group for every
\* key that two or more of those rows share, its keeper the first of them
\* by (sheet, row_index), its count the others.  With 1000 such rows or
\* fewer, every pair of them that _are_near_duplicates accepts is reported
\* once, earlier row first, and nothing else is.
C10_NearDuplicateCeiling ==
    pc = "records_deduplicated" =>
        /\ ConsideredCount > NearDupCeiling =>
              records_report.near_duplicates = <<>>
        /\ \A i \in 1..Len(processed_rows) :
              (\E j \in 1..Len(processed_rows) : i # j /\ SameRecordKey(i, j))
                  <=> (/\ Considered(i)
                       /\ \E g \in 1..Len(records_report.duplicates_report) :
                             Some(records_report.duplicates_report[g].canonical_key)
                                 = processed_rows[i].canonical_key)
        /\ \A g \in 1..Len(records_report.duplicates_report) :
              /\ \A h \in 1..Len(records_report.duplicates_report) :
                    records_report.duplicates_report[h].canonical_key
                        = records_report.duplicates_report[g].canonical_key
                            => h = g
              /\ \E i \in 1..Len(processed_rows) :
                    /\ Considered(i)
                    /\ Some(records_report.duplicates_report[g].canonical_key)
                           = processed_rows[i].canonical_key
                    /\ records_report.duplicates_report[g].keeper = RowRef(processed_rows[i])
                    /\ \A j \in 1..Len(processed_rows) :
                          SameRecordKey(i, j) =>
                              ~TupleLess(RecordPlace(j), RecordPlace(i))
                    /\ records_report.duplicates_report[g].duplicate_count + 1 =
                           Cardinality({j \in 1..Len(processed_rows) :
                                           SameRecordKey(i, j)})
        /\ ConsideredCount <= NearDupCeiling =>
              /\ \A i \in 1..Len(processed_rows) :
                    \A j \in (i + 1)..Len(processed_rows) :
                        NearRows(i, j) => Reported(i, j)
              /\ \A k \in 1..Len(records_report.near_duplicates) :
                    /\ \E i \in 1..Len(processed_rows) :
                          \E j \in (i + 1)..Len(processed_rows) :
                              /\ NearRows(i, j)
                              /\ records_report.near_duplicates[k].row1 =
                                     [sheet |-> processed_rows[i].sheet,
                                      row_index |-> processed_rows[i].row_index]
                              /\ records_report.near_duplicates[k].row2 =
                                     [sheet |-> processed_rows[j].sheet,
                                      row_index |-> processed_rows[j].row_index]
                    /\ \A h \in 1..Len(records_report.near_duplicates) :
                          (/\ records_report.near_duplicates[h].row1
                                  = records_report.near_duplicates[k].row1
                           /\ records_report.near_duplicates[h].row2
                                  = records_report.near_duplicates[k].row2) => h = k

\* a sheet of 1001 rows that are not removed, two of them near duplicates
\* of each other and exact duplicates under the provider-aware key: no near
\* pair is reported, the exact group is
C10_LargeSheetNotCompared ==
    /\ pc = "records_deduplicated"
    /\ ConsideredCount = NearDupCeiling + 1
    /\ NearRows(1, 2)
    /\ records_report.near_duplicates = <<>>
    /\ \E g \in 1..Len(records_report.duplicates_report) :
          /\ records_report.duplicates_report[g].keeper = RowRef(processed_rows[1])
          /\ records_report.duplicates_report[g].duplicate_count = 1

(***************************************************************************)
(* Properties of the engine's suggestions and confidence, under            *)
(* SpecValidate                                                            *)
(***************************************************************************)
\* the flags normalize_email_raw reports: what it changed, not a defect
NormalizationFlags ==
    {"angle_brackets_stripped", "fullwidth_at_replaced", "whitespace_removed",
     "trailing_dot_domain_stripped", "double_dot_domain_collapsed",
     "domain_lowercased", "normalized"}

\* the address has one '@', its domain ends in a key of DEFAULT_TLD_FIX and
\* is no key of DEFAULT_DOMAIN_FIX, and bad_tld is the only risk it carries
OnlyTldTypo ==
    /\ count(NormalizedInput, "@") = 1
    /\ ~IsNone(suggest_tld_fix(InputDomain))
    /\ IsNone(suggest_exact_domain_fix(InputDomain))
    /\ result.risk_reasons \ NormalizationFlags = {"bad_tld"}

\* C11: an address whose only defect is a domain ending in an entry of the
\* TLD-typo table gets action fix_auto, its output email is the local part
\* with the corrected domain, and its confidence lies between 0.90 and
\* 0.95.
C11_TldTypoFix ==
    (pc = "mapped" /\ OnlyTldTypo)
    => /\ result.action = "fix_auto"
       /\ decision.action = "fix_auto"
       /\ decision.output_email =
              InputLocal \o <<"@">> \o Value(suggest_tld_fix(InputDomain))
       /\ result.confidence >= 900
       /\ result.confidence <= 950

(***************************************************************************)
(* Specification SpecConfidence: _confidence_for applied to an action, a   *)
(* set of risk flags and a kind of fix                                     *)
(***************************************************************************)
MaxFlags == 9

\* flags validate_email_deterministic collects into risks
ConfidenceFlags ==
    <<"free_mail_domain", "role_account", "unicode_confusable",
      "non_ascii_domain", "invalid_syntax", "bad_tld", "empty_local",
      "invalid_domain_label", "disposable_domain", "multiple_at",
      "empty_domain", "leading_trailing_dot", "double_dot_local",
      "double_dot_domain">>

\* the values fix_kind takes at lines 464-490
FixKinds == {None, Some("exact"), Some("local_collapse"), Some("fuzzy_domain")}

ConfidenceInit ==
    /\ pc = "start"
    /\ options \in
          [action : EngineActions,
           risks : SUBSET {ConfidenceFlags[i] :
                              i \in 1..Min(MaxFlags, Len(ConfidenceFlags))},
           fix_kind : FixKinds]
    /\ result = <<>>
    /\ decision = <<>>
    /\ email = <<>>
    /\ NormIdle
    /\ SheetIdle
    /\ KeyIdle
    /\ PipeIdle
    /\ RecIdle

\* conf = _confidence_for(action, risks, fix_kind)
ConfidenceFor ==
    /\ pc = "start"
    /\ pc' = "scored"
    /\ result' = [confidence |->
                     _confidence_for(options.action, options.risks, options.fix_kind)]
    /\ UNCHANGED <<email, sheetVars, options, decision, normVars, keyVars, pipeVars, recVars>>

ConfidenceNext == ConfidenceFor

SpecConfidence == ConfidenceInit /\ [][ConfidenceNext]_vars

\* C12: for every action and every set of risk flags the confidence lies
\* in [0.01, 0.99], and what the risk flags take off the base value and the
\* bonus never exceeds 0.6.
C12_ConfidenceClamped ==
    pc = "scored" =>
        /\ result.confidence >= 10
        /\ result.confidence <= 990
        /\ Penalty(options.risks) <= 600
        /\ result.confidence >=
               BaseConfidence(options.action, options.risks)
                   + Bonus(options.action, options.fix_kind) - 600

\* flags whose weights add up to more than the cap, on a fix_auto: the
\* confidence is the base and bonus less 0.6 exactly
C12_PenaltyCapped ==
    /\ pc = "scored"
    /\ options.action = "fix_auto"
    /\ _risk_score(options.risks) * 15 > 600
    /\ result.confidence =
           900 + Bonus(options.action, options.fix_kind) - 600

\* the base value the confidence starts from, by action alone
ActionBase(action) ==
    CASE action = "accept" -> 980
      [] action = "fix_auto" -> 900
      [] action = "review" -> 400
      [] OTHER -> 100

\* C18: the confidence equals clamp(base(action) - min(0.6, weighted sum
\* of the risk flags) + bonus, 0.01, 0.99) with base 0.98 for accept, 0.90
\* for fix_auto, 0.40 for review and 0.10 for suppress, for every set of
\* risk flags: an accepted address with a minor flag starts from 0.98.
C18_ConfidenceFormula ==
    pc = "scored" =>
        result.confidence =
            Max(10, Min(990, ActionBase(options.action)
                             - Min(600, SumWeights(options.risks) * 15)
                             + Bonus(options.action, options.fix_kind)))

(***************************************************************************)
(* Properties of deduplicate_entries, under SpecDedupe                     *)
(***************************************************************************)
\* two different Gmail-equivalent addresses that the provider rules fold
\* into one: they differ only by dots or a plus-tag in the local part
DifferByDotsOrTag(a, b) ==
    /\ a # b
    /\ count(a, "@") = 1
    /\ count(b, "@") = 1
    /\ AfterFirst(a, "@") \in GMAIL_LIKE
    /\ AfterFirst(b, "@") = AfterFirst(a, "@")
    /\ canonical_key(a, TRUE) = canonical_key(b, TRUE)

\* entries i and j are members of one group of the duplicates report
InOneReportedGroup(i, j) ==
    \E g \in 1..Len(dedupe_results.duplicates_report) :
        \A e \in {entries[i], entries[j]} :
            \/ dedupe_results.duplicates_report[g].keeper = PositionOf(e)
            \/ \E k \in 1..Len(dedupe_results.duplicates_report[g].duplicates) :
                  dedupe_results.duplicates_report[g].duplicates[k] = PositionOf(e)

\* C13: with provider_aware_dedup off, two processed entries whose cleaned
\* Gmail addresses differ only by dots or a plus-tag have different
\* canonical keys and are not placed in the same duplicate group.
C13_ProviderOptionGoverns ==
    (pc = "deduplicated" /\ ~options.provider_aware_dedup)
    => \A i, j \in 1..Len(entries) :
          (/\ i # j
           /\ IsValidEntry(entries[i]) \/ entries[i].action = "duplicate"
           /\ IsValidEntry(entries[j]) \/ entries[j].action = "duplicate"
           /\ entries[i].cleaned # <<>>
           /\ entries[j].cleaned # <<>>
           /\ DifferByDotsOrTag(entries[i].cleaned, entries[j].cleaned))
          => /\ entries[i].canonical_key # entries[j].canonical_key
             /\ ~InOneReportedGroup(i, j)

(***************************************************************************)
(* The effect of deduplicate_entries on the entry list, under SpecDedupe   *)
(***************************************************************************)
\* entry i of the list is grouped (non-empty and not suppressed when the
\* method starts) and another grouped entry with the canonical key of i
\* stands at a smaller (sheet, row_number, col_number)
NonKeeperMember(before, after, i) ==
    /\ ~is_empty(before[i])
    /\ before[i].action # "remove"
    /\ \E j \in 1..Len(before) :
          /\ j # i
          /\ ~is_empty(before[j])
          /\ before[j].action # "remove"
          /\ after[j].canonical_key = after[i].canonical_key
          /\ TupleLess(EntryKey(before[j]), EntryKey(before[i]))

\* the fields of an entry that deduplicate_entries never assigns
FrameOf(e) ==
    [sheet |-> e.sheet, row_number |-> e.row_number, col_number |-> e.col_number,
     col_name |-> e.col_name, raw |-> e.raw, cleaned |-> e.cleaned,
     confidence |-> e.confidence, changed |-> e.changed, reason |-> e.reason]

\* C16: deduplicate_entries only re-tags: the list keeps the same entries
\* in the same order; raw, cleaned, confidence, changed, reason and the
\* position of every entry are unchanged; a canonical_key changes only
\* where it was empty; an action changes only to 'duplicate' and only for
\* a non-keeper member of a group, so the action of keepers, suppressed
\* and empty entries is unchanged.
C16_DedupeOnlyRetags ==
    [][(pc' = "deduplicated") =>
          /\ Len(entries') = Len(entries)
          /\ \A i \in 1..Len(entries) :
                /\ FrameOf(entries'[i]) = FrameOf(entries[i])
                /\ DOMAIN entries'[i] = DOMAIN entries[i]
                /\ (entries'[i].canonical_key # entries[i].canonical_key)
                      => entries[i].canonical_key = <<>>
                /\ (entries'[i].action # entries[i].action)
                      => /\ entries'[i].action = "duplicate"
                         /\ NonKeeperMember(entries, entries', i)
                /\ (is_empty(entries[i]) \/ entries[i].action = "remove")
                      => entries'[i] = entries[i]]_vars

\* a deduplicated list with a duplicate, its keeper and an empty entry, the
\* keys of the first two generated by the method
C16_DuplicateKeeperAndEmpty ==
    /\ pc = "deduplicated"
    /\ processing = <<>>
    /\ \E i, j, k \in 1..Len(entries) :
          /\ entries[i].action = "duplicate"
          /\ entries[j].action = ""
          /\ entries[j].canonical_key = entries[i].canonical_key
          /\ entries[j].canonical_key # <<>>
          /\ is_empty(entries[k])
          /\ entries[k].canonical_key = <<>>

\* C17: exact dedup marking: after deduplicate_entries an entry has action
\* 'duplicate' if and only if it is non-empty, not suppressed, and another
\* non-empty non-suppressed entry with the same canonical key has a
\* smaller (sheet, row_number, col_number); every canonical key held by
\* non-suppressed entries has exactly one holder that is not marked
\* duplicate; no suppressed entry is a keeper or a duplicate.
C17_ExactDedupMarking ==
    [][(pc' = "deduplicated") =>
          /\ \A i \in 1..Len(entries) :
                (entries'[i].action = "duplicate")
                    <=> NonKeeperMember(entries, entries', i)
          /\ \A i \in 1..Len(entries) :
                (~is_empty(entries[i]) /\ entries[i].action # "remove") =>
                    Cardinality({j \in 1..Len(entries) :
                        /\ ~is_empty(entries[j])
                        /\ entries[j].action # "remove"
                        /\ entries'[j].canonical_key = entries'[i].canonical_key
                        /\ entries'[j].action # "duplicate"}) = 1
          /\ \A i \in 1..Len(entries) :
                entries[i].action = "remove" =>
                    /\ entries'[i].action = "remove"
                    /\ \A g \in 1..Len(dedupe_results'.duplicates_report) :
                          dedupe_results'.duplicates_report[g].keeper
                              # PositionOf(entries'[i])]_vars

\* a processed list in which a suppressed entry stands between a keeper
\* and its duplicate
C17_SuppressedBesideGroup ==
    /\ pc = "deduplicated"
    /\ processing # <<>>
    /\ Len(entries) = 3
    /\ entries[1].action = "duplicate"
    /\ entries[2].action = "remove"
    /\ entries[3].action \in {"accept", "fix_auto"}
    /\ entries[3].canonical_key = entries[1].canonical_key

(***************************************************************************)
(* The review downgrade, under SpecValidate                                *)
(***************************************************************************)
\* the number of medium-severity flags the result carries
MediumFlagCount ==
    Cardinality(result.risk_reasons
                    \cap {"unicode_confusable", "non_ascii_domain", "role_account"})

\* C19: decision order for review: a record that is not suppressed and has
\* no correction suggestion gets action review exactly when it carries two
\* or more of the flags unicode_confusable, non_ascii_domain, role_account,
\* and accept otherwise; a record that the rules suppress (role account
\* excluded by policy, or a suppression-level flag) or that has a suggestion
\* is never turned into review.
C19_ReviewDecisionOrder ==
    Validated =>
        /\ (result.action # "suppress" /\ IsNone(result.suggested_fix))
              => result.action = (IF MediumFlagCount >= 2 THEN "review" ELSE "accept")
        /\ result.action = "review"
              => /\ IsNone(result.suggested_fix)
                 /\ MediumFlagCount >= 2
                 /\ result.risk_reasons \cap SuppressionLevel = {}
                 /\ ~(options.exclude_role_accounts
                        /\ "role_account" \in result.risk_reasons)

\* a role account at a confusable internationalized domain is sent to review
C19_RoleAtConfusableReviewed ==
    /\ Validated
    /\ result.action = "review"
    /\ {"role_account", "unicode_confusable", "non_ascii_domain"}
          \subseteq result.risk_reasons
    /\ ~options.exclude_role_accounts

(***************************************************************************)
(* The provider rules of the canonical key, under SpecKey                  *)
(***************************************************************************)
OutlookEquivalent ==
    { <<"o","u","t","l","o","o","k",".","c","o","m">>,
      <<"h","o","t","m","a","i","l",".","c","o","m">>,
      <<"l","i","v","e",".","c","o","m">> }

\* the local part and the domain of the normalized address, and of its key
NormalizedKeyLocal == split_local_domain(normalize_email_raw(email).s).local
NormalizedKeyDomain == split_local_domain(normalize_email_raw(email).s).domain
BaseKeyLocal == BeforeFirst(Value(keys.base), "@")
BaseKeyDomain == AfterFirst(Value(keys.base), "@")

\* C20: with provider-aware mode on, the local part of the canonical key
\* follows the provider rules: for Gmail-equivalent domains the dots are
\* stripped and the local part is cut at the first '+'; for the
\* Outlook-equivalent domains outlook.com, hotmail.com and live.com the
\* local part is cut at the first '+' and the dots are kept, so an address
\* and the same address with the tag +x have one key; for every other
\* domain the local part is only lower-cased.
C20_ProviderLocalRules ==
    (pc \in {"keyed", "compared"} /\ options.provider_aware /\ ~IsNone(keys.base))
    => /\ BaseKeyDomain \in GMAIL_LIKE
            => BaseKeyLocal = RemoveChars(split(NormalizedKeyLocal, "+")[1], {"."})
       /\ BaseKeyDomain \in OutlookEquivalent
            => /\ lower(BaseKeyLocal) = lower(split(NormalizedKeyLocal, "+")[1])
               /\ (pc = "compared"
                   /\ variant = BeforeFirst(email, "@") \o <<"+", "x", "@">>
                                    \o AfterFirst(email, "@"))
                      => keys.variant = keys.base
       /\ BaseKeyDomain \notin (GMAIL_LIKE \cup OutlookEquivalent)
            => BaseKeyLocal = lower(NormalizedKeyLocal)

(***************************************************************************)
(* FeatureExtractor (src/app/features.py), run without a config directory  *)
(***************************************************************************)
\* lines 50-67: _get_default_typo_maps()['tld_typos'], in the order of the dict
TldTypoMap ==
    << <<<<".","c","o","n">>, <<".","c","o","m">>>>, <<<<".","c","m","o">>, <<".","c","o","m">>>>, <<<<".","c","i","m">>, <<".","c","o","m">>>>,
       <<<<".","c","0","m">>, <<".","c","o","m">>>>, <<<<".","c","o","m","m">>, <<".","c","o","m">>>>, <<<<".","c","o","m","n">>, <<".","c","o","m">>>>,
       <<<<".","v","o","m">>, <<".","c","o","m">>>>, <<<<".","x","o","m">>, <<".","c","o","m">>>>, <<<<".","d","o","m">>, <<".","c","o","m">>>>,
       <<<<".","o","c","m">>, <<".","c","o","m">>>>, <<<<".","n","e","t","t">>, <<".","n","e","t">>>>, <<<<".","n","e">>, <<".","n","e","t">>>>,
       <<<<".","n","t","e">>, <<".","n","e","t">>>>, <<<<".","o","r","g","g">>, <<".","o","r","g">>>>, <<<<".","o","g","r">>, <<".","o","r","g">>>>,
       <<<<".","r","o","g">>, <<".","o","r","g">>>> >>

\* lines 68-79: _get_default_typo_maps()['domain_typos']
DomainTypoMap ==
    << <<<<"g","m","i","a","l",".","c","o","m">>, <<"g","m","a","i","l",".","c","o","m">>>>, <<<<"g","a","m","i","l",".","c","o","m">>, <<"g","m","a","i","l",".","c","o","m">>>>,
       <<<<"g","m","a","i",".","c","o","m">>, <<"g","m","a","i","l",".","c","o","m">>>>, <<<<"o","u","t","l","o","k",".","c","o","m">>, <<"o","u","t","l","o","o","k",".","c","o","m">>>>,
       <<<<"h","o","t","m","i","a","l",".","c","o","m">>, <<"h","o","t","m","a","i","l",".","c","o","m">>>>, <<<<"y","a","h","h","o",".","c","o","m">>, <<"y","a","h","o","o",".","c","o","m">>>>,
       <<<<"y","a","h","o","o","o",".","c","o","m">>, <<"y","a","h","o","o",".","c","o","m">>>>, <<<<"f","a","c","e","b","o","o","o","k",".","c","o","m">>, <<"f","a","c","e","b","o","o","k",".","c","o","m">>>>,
       <<<<"g","o","o","l","g","e",".","c","o","m">>, <<"g","o","o","g","l","e",".","c","o","m">>>>, <<<<"g","o","o","g","e","l",".","c","o","m">>, <<"g","o","o","g","l","e",".","c","o","m">>>> >>

\* lines 34-38
free_mail_domains ==
    { <<"g","m","a","i","l",".","c","o","m">>, <<"g","o","o","g","l","e","m","a","i","l",".","c","o","m">>, <<"o","u","t","l","o","o","k",".","c","o","m">>, <<"h","o","t","m","a","i","l",".","c","o","m">>,
      <<"y","a","h","o","o",".","c","o","m">>, <<"y","a","h","o","o",".","c","o",".","u","k">>, <<"i","c","l","o","u","d",".","c","o","m">>, <<"p","r","o","t","o","n","m","a","i","l",".","c","o","m">>,
      <<"a","o","l",".","c","o","m">>, <<"m","a","i","l",".","c","o","m">>, <<"y","a","n","d","e","x",".","c","o","m">>, <<"z","o","h","o",".","c","o","m">> }

\* lines 29-31: _load_text_list returns set() when the file does not exist
disposable_domains == {}
role_locals == {}

\* line 252
role_prefixes ==
    { <<"a","d","m","i","n">>, <<"i","n","f","o">>, <<"s","a","l","e","s">>, <<"s","u","p","p","o","r","t">>, <<"n","o","r","e","p","l","y">>, <<"n","o","-","r","e","p","l","y">> }

\* line 260: the alternatives of ^(test|temp|example|sample)
TestPrefixes == { <<"t","e","s","t">>, <<"t","e","m","p">>, <<"e","x","a","m","p","l","e">>, <<"s","a","m","p","l","e">> }

\* the suffixes tld.get_tld finds in the public suffix list, among the last
\* labels of the domains considered here
PublicSuffixes == { <<"c","o","m">>, <<"n","e","t">>, <<"o","r","g">>, <<"x","y","z">> }

\* line 151: the characters outside [^a-zA-Z0-9.!#$%&'*+/=?^_`{|}~-]
FeatureLocalChars == LOCAL_SAFE_CHARS \cup {"."}

\* the empty feature dict of lines 89-97
NewFeatures(e) ==
    [original_email |-> e,
     normalized_email |-> e,
     flags |-> {},
     syntax_valid |-> TRUE,
     local_part |-> <<>>,
     domain_part |-> <<>>,
     suggested_corrections |-> <<>>,
     punycode_domain |-> None]

\* features with the flag set, and with syntax_valid cleared
Flag(f, name) == [f EXCEPT !.flags = @ \cup {name}]
Invalid(f, name) == [f EXCEPT !.flags = @ \cup {name}, !.syntax_valid = FALSE]
FlagIf(f, cond, name) == IF cond THEN Flag(f, name) ELSE f
InvalidIf(f, cond, name) == IF cond THEN Invalid(f, name) ELSE f

\* lines 141-154: the local part
LocalSyntaxFeatures(f, local) ==
    InvalidIf(
      FlagIf(
        InvalidIf(
          InvalidIf(f, Len(local) > 64, "local_too_long"),
          startswith(local, <<".">>) \/ endswith(local, <<".">>),
          "local_dot_boundaries"),
        contains(local, <<".", ".">>), "local_consecutive_dots"),
      \E i \in 1..Len(local) : local[i] \notin FeatureLocalChars,
      "local_invalid_chars")

\* lines 157-178: the domain and its labels
DomainSyntaxFeatures(f, domain, labels) ==
    InvalidIf(
      InvalidIf(
        InvalidIf(
          InvalidIf(
            InvalidIf(f, Len(domain) > 253, "domain_too_long"),
            startswith(domain, <<".">>) \/ endswith(domain, <<".">>),
            "domain_dot_boundaries"),
          contains(domain, <<".", ".">>), "domain_consecutive_dots"),
        \E i \in 1..Len(labels) : Len(labels[i]) > MaxLabelLen, "label_too_long"),
      \E i \in 1..Len(labels) :
          startswith(labels[i], <<"-">>) \/ endswith(labels[i], <<"-">>),
      "label_hyphen_boundaries")

_extract_syntax_features(f) ==
    DomainSyntaxFeatures(LocalSyntaxFeatures(f, f.local_part),
                         f.domain_part, split(f.domain_part, "."))

\* lines 180-202; line 201 removes the spaces before it looks for one, so
\* has_internal_space is never set
_extract_normalization_features(f) ==
    FlagIf(
      FlagIf(
        FlagIf(
          FlagIf(
            FlagIf(f, f.original_email # strip(f.original_email, Whitespace),
                   "has_whitespace"),
            "ZW" \in Range(f.original_email), "has_zero_width"),
          "\"" \in Range(f.original_email), "has_smart_quotes"),
        "<" \in Range(f.original_email) /\ ">" \in Range(f.original_email),
        "has_angle_brackets"),
      "FWAT" \in Range(f.original_email), "has_fullwidth_at")

\* lines 209-216: idna.encode of a domain with characters outside ASCII
IdnFeatures(f, domain, labels) ==
    IF _is_ascii(domain) THEN f
    ELSE IF \E i \in 1..Len(labels) : IdnaLabelFails(labels[i])
    THEN Invalid(Flag(f, "non_ascii_domain"), "idna_error")
    ELSE [Flag(f, "non_ascii_domain") EXCEPT !.punycode_domain =
             Some(join([i \in 1..Len(labels) |-> IdnaLabel(labels[i])], "."))]

\* lines 219-227: tld.get_tld raises TldDomainNotFound when the domain ends
\* in no public suffix
TldFeatures(f, labels) ==
    InvalidIf(f, labels[Len(labels)] \notin PublicSuffixes, "invalid_tld")

\* lines 284-299: a Cyrillic letter and a Latin letter in one text
_has_confusables(text) ==
    /\ \E i \in 1..Len(text) : text[i] \in SuspiciousChars
    /\ \E i \in 1..Len(text) : text[i] \in Range(Lower)

\* lines 229-238
DomainCategories(f, domain) ==
    FlagIf(
      FlagIf(
        FlagIf(f, domain \in free_mail_domains, "free_mail_domain"),
        domain \in disposable_domains, "disposable_domain"),
      _has_confusables(domain), "unicode_confusable")

_extract_domain_features(f) ==
    DomainCategories(
      TldFeatures(
        IdnFeatures(f, lower(f.domain_part), split(lower(f.domain_part), ".")),
        split(lower(f.domain_part), ".")),
      lower(f.domain_part))

\* lines 240-261
RiskFeatures(f, local) ==
    FlagIf(
      FlagIf(
        FlagIf(f, local \in role_locals
                     \/ \E prefix \in role_prefixes : startswith(local, prefix),
               "role_account"),
        Cardinality(Range(local)) < 3, "low_diversity"),
      \E prefix \in TestPrefixes : startswith(local, prefix), "test_email")

_extract_risk_features(f) == RiskFeatures(f, lower(f.local_part))

\* lines 268-276: one correction per TLD typo the domain ends with
TldCorrections(domain) ==
    LET hits == SelectSeq(TldTypoMap, LAMBDA t : endswith(domain, t[1]))
    IN  [k \in 1..Len(hits) |->
            [type |-> "tld_typo",
             original |-> domain,
             suggested |-> SubSeq(domain, 1, Len(domain) - Len(hits[k][1]))
                               \o hits[k][2],
             confidence |-> 950]]

\* lines 279-286
DomainCorrections(domain) ==
    LET hits == SelectSeq(DomainTypoMap, LAMBDA t : t[1] = domain)
    IN  [k \in 1..Len(hits) |->
            [type |-> "domain_typo",
             original |-> domain,
             suggested |-> hits[k][2],
             confidence |-> 900]]

_extract_correction_suggestions(f) ==
    [f EXCEPT !.suggested_corrections =
        @ \o TldCorrections(lower(f.domain_part))
          \o DomainCorrections(lower(f.domain_part))]

\* lines 127-131
ExtractCategories(f) ==
    _extract_correction_suggestions(
      _extract_risk_features(
        _extract_domain_features(
          _extract_normalization_features(
            _extract_syntax_features(f)))))

\* lines 106-122: the parts of an address with one '@'
ExtractParts(f, local, domain) ==
    IF local = <<>> \/ domain = <<>>
    THEN Invalid([f EXCEPT !.local_part = local, !.domain_part = domain],
                 "empty_parts")
    ELSE ExtractCategories([f EXCEPT !.local_part = local, !.domain_part = domain])

\* lines 84-133
extract_features(e) ==
    IF count(e, "@") = 0 THEN Invalid(NewFeatures(e), "missing_at")
    ELSE IF count(e, "@") # 1 THEN Invalid(NewFeatures(e), "multiple_at")
    ELSE ExtractParts(NewFeatures(e), BeforeFirst(e, "@"), AfterFirst(e, "@"))

(***************************************************************************)
(* EmailNormalizer (src/app/normalize.py)                                  *)
(***************************************************************************)
\* line 15: the characters of zero_width_pattern
ZeroWidthChars == {"ZW"}

\* line 16: the pattern is r'["""' followed by '`]', the class of the double
\* quote and the grave accent; each is replaced by '"'
QuotePatternChars == {"\"", "BACKTICK"}

\* lines 43-58
StripAngles(s) ==
    IF startswith(s, <<"<">>) /\ endswith(s, <<">">>)
    THEN SubSeq(s, 2, Len(s) - 1) ELSE s

_basic_cleanup(e) ==
    RemoveChars(StripAngles(RemoveChars(strip(e, Whitespace), ZeroWidthChars)),
                Whitespace)

\* lines 60-68: line 66 replaces a three-character sequence that is not the
\* fullwidth '@', which stays as it is
_character_replacements(e) ==
    [i \in 1..Len(e) |-> IF e[i] \in QuotePatternChars THEN "\"" ELSE e[i]]

\* s.rsplit('<<","," ","1",")"," ","o","f"," ","a"," ","s","t","r","i","n","g"," ","t","h","a","t"," ","h","o","l","d","s"," ","a","n"," ">>'
RsplitLocal(s) == SubSeq(s, 1, LastIndexOf(s, "@") - 1)
RsplitDomain(s) == SubSeq(s, LastIndexOf(s, "@") + 1, Len(s))

\* lines 78-89
NormalizedDomain(domain, f) ==
    IF ~IsNone(f.punycode_domain) THEN Value(f.punycode_domain)
    ELSE CollapseDots(rstrip(lower(domain), {"."}))

\* lines 70-94
_domain_normalization(e, f) ==
    IF count(e, "@") = 0 THEN e
    ELSE RsplitLocal(e) \o <<"@">> \o NormalizedDomain(RsplitDomain(e), f)

\* lines 121-136
_is_valid_local_part(local) ==
    /\ local # <<>>
    /\ Len(local) <= 64
    /\ ~startswith(local, <<".">>)
    /\ ~endswith(local, <<".">>)
    /\ ~contains(local, <<".", ".">>)
    /\ \A i \in 1..Len(local) : local[i] \in FeatureLocalChars

\* lines 102-107: the corrections the loop returns on
SafeCorrections(e, f) ==
    SelectSeq(f.suggested_corrections,
              LAMBDA c : /\ c.confidence >= 900
                         /\ c.type \in {"tld_typo", "domain_typo"}
                         /\ lower(RsplitDomain(e)) = c.original)

\* lines 110-119
CollapseLocal(e, local, domain) ==
    IF /\ contains(local, <<".", ".">>)
       /\ ~startswith(local, <<".">>)
       /\ ~endswith(local, <<".">>)
       /\ _is_valid_local_part(CollapseDots(local))
    THEN CollapseDots(local) \o <<"@">> \o domain
    ELSE e

\* lines 96-119
_apply_safe_corrections(e, f) ==
    IF count(e, "@") = 0 THEN e
    ELSE IF SafeCorrections(e, f) # <<>>
    THEN RsplitLocal(e) \o <<"@">> \o SafeCorrections(e, f)[1].suggested
    ELSE CollapseLocal(e, RsplitLocal(e), RsplitDomain(e))

\* lines 19-41
normalize_email(e, f) ==
    IF e = <<>> THEN e
    ELSE _apply_safe_corrections(
             _domain_normalization(
                 _character_replacements(_basic_cleanup(e)), f), f)

(***************************************************************************)
(* LLMAdapter (src/app/llm_adapter.py)                                     *)
(***************************************************************************)
\* line 45
max_retries == 3

\* The values json.loads returns: t is the type and v the value; a number
\* is held in thousandths, a string as its characters.
JsonStr(s) == [t |-> "str", v |-> s]
JsonNum(n) == [t |-> "num", v |-> <<n>>]
JsonNull == [t |-> "null", v |-> <<>>]
JsonNaN == [t |-> "nan", v |-> <<>>]
JsonHuge == [t |-> "huge", v |-> <<>>]
JsonList(items) == [t |-> "list", v |-> items]
JsonDict(fields) == [t |-> "dict", v |-> fields]

\* the value of a string of decimal digits
RECURSIVE DecimalValue(_)
DecimalValue(ds) ==
    IF ds = <<>> THEN 0
    ELSE DecimalValue(SubSeq(ds, 1, Len(ds) - 1)) * 10
             + (CHOOSE d \in 0..9 : Digits[d + 1] = ds[Len(ds)])

\* the thousandths of the digits after the decimal point
FractionValue(ds) ==
    DecimalValue(SubSeq(ds \o <<"0", "0", "0">>, 1, 3))

\* float(s) of an unsigned decimal literal
ParseUnsigned(u) ==
    IF \/ u = <<>>
       \/ u = <<".">>
       \/ count(u, ".") > 1
       \/ \E i \in 1..Len(u) : u[i] \notin (Range(Digits) \cup {"."})
    THEN [exc |-> "ValueError", nan |-> FALSE, v |-> 0]
    ELSE IF count(u, ".") = 0
    THEN [exc |-> "none", nan |-> FALSE, v |-> DecimalValue(u) * 1000]
    ELSE [exc |-> "none", nan |-> FALSE,
          v |-> DecimalValue(BeforeFirst(u, ".")) * 1000
                    + FractionValue(AfterFirst(u, "."))]

\* float(s) of a str: surrounding whitespace and a sign are accepted
ParseFloat(s) ==
    IF lower(s) = <<"n","a","n">> THEN [exc |-> "none", nan |-> TRUE, v |-> 0]
    ELSE IF startswith(s, <<"-">>)
    THEN [ParseUnsigned(Tail(s)) EXCEPT !.v = 0 - @]
    ELSE ParseUnsigned(s)

\* float(x): the exception it raises, whether the value is NaN, the value
Float(x) ==
    CASE x.t = "num" -> [exc |-> "none", nan |-> FALSE, v |-> x.v[1]]
      [] x.t = "str" -> ParseFloat(strip(x.v, Whitespace))
      [] x.t = "nan" -> [exc |-> "none", nan |-> TRUE, v |-> 0]
      [] x.t = "huge" -> [exc |-> "OverflowError", nan |-> FALSE, v |-> 0]
      [] OTHER -> [exc |-> "TypeError", nan |-> FALSE, v |-> 0]

\* max(0.0, min(1.0, confidence)): min(1.0, nan) is 1.0
ClampUnit(f) == IF f.nan THEN 1000 ELSE Max(0, Min(1000, f.v))

\* the clamp left out
ValidConfidence_Unclamped(x) ==
    IF Float(x).exc \in {"ValueError", "TypeError"} THEN 500
    ELSE Float(x).v

\* lines 196-201
ValidConfidence(x) ==
    IF Float(x).exc \in {"ValueError", "TypeError"} THEN 500
    ELSE ClampUnit(Float(x))

\* lines 191-194, the action as one of the engine's action names
ValidAction(x) ==
    IF x.t = "str" /\ x.v = <<"a","c","c","e","p","t">> THEN "accept"
    ELSE IF x.t = "str" /\ x.v = <<"f","i","x","_","a","u","t","o">> THEN "fix_auto"
    ELSE IF x.t = "str" /\ x.v = <<"s","u","p","p","r","e","s","s">> THEN "suppress"
    ELSE "review"

\* dict.get(k): None when the key is absent or holds null
Get(d, k) == IF k \in DOMAIN d /\ d[k].t # "null" THEN Some(d[k]) ELSE None

\* lines 220-222
LimitNotes(x) ==
    IF x.t = "str" /\ Len(x.v) > 120
    THEN JsonStr(SubSeq(x.v, 1, 117) \o <<".", ".", ".">>)
    ELSE x

\* whether _validate_response raises: a response that is no dict, a missing
\* required field, a confidence float() cannot hold, notes without a length
ValidateRaises(response) ==
    IF response.t # "dict" THEN TRUE
    ELSE IF {"action", "confidence"} \ DOMAIN response.v # {} THEN TRUE
    ELSE IF Float(response.v.confidence).exc = "OverflowError" THEN TRUE
    ELSE IF "notes" \in DOMAIN response.v
    THEN response.v.notes.t \notin {"str", "list"}
    ELSE FALSE

\* whether the try block of lines 60-67 raises
AttemptRaises(answer) ==
    IF answer.raises THEN TRUE ELSE ValidateRaises(answer.json)

\* lines 182-224, on the fields d of a response it accepts
ValidatedFields(d, original_email) ==
    [action |-> ValidAction(d.action),
     confidence |-> ValidConfidence(d.confidence),
     input_email |-> IF "input_email" \in DOMAIN d THEN d.input_email
                     ELSE JsonStr(original_email),
     normalized_email |-> IF "normalized_email" \in DOMAIN d THEN d.normalized_email
                          ELSE JsonStr(original_email),
     suggested_fix |-> IF /\ ~IsNone(Get(d, "suggested_fix"))
                          /\ Value(Get(d, "suggested_fix")).t = "str"
                          /\ Value(Get(d, "suggested_fix")).v = <<>>
                       THEN None
                       ELSE Get(d, "suggested_fix"),
     risk_reasons |-> IF "risk_reasons" \in DOMAIN d /\ d.risk_reasons.t = "list"
                      THEN d.risk_reasons ELSE JsonList(<<>>),
     notes |-> IF "notes" \in DOMAIN d THEN Some(LimitNotes(d.notes)) ELSE None]

_validate_response(response, original_email) ==
    ValidatedFields(response.v, original_email)

\* lines 226-260
FallbackResult(e, action, confidence, reasons) ==
    [action |-> action,
     confidence |-> confidence,
     input_email |-> JsonStr(e),
     normalized_email |-> JsonStr(e),
     suggested_fix |-> None,
     risk_reasons |-> JsonList(reasons),
     notes |-> Some(JsonStr(<<"F","a","l","l","b","a","c","k"," ","d","e","c","i","s","i","o","n"," ","(","L","L","M"," ","u","n","a","v","a","i","l","a","b","l","e",")">>))]

_fallback_decision(e, f) ==
    IF ~f.syntax_valid
    THEN FallbackResult(e, "suppress", 900, <<JsonStr(<<"s","y","n","t","a","x","_","i","n","v","a","l","i","d">>)>>)
    ELSE IF "disposable_domain" \in f.flags
    THEN FallbackResult(e, "suppress", 850, <<JsonStr(<<"d","i","s","p","o","s","a","b","l","e","_","d","o","m","a","i","n">>)>>)
    ELSE IF "role_account" \in f.flags
    THEN FallbackResult(e, "review", 700, <<JsonStr(<<"r","o","l","e","_","a","c","c","o","u","n","t">>)>>)
    ELSE IF f.suggested_corrections # <<>>
    THEN FallbackResult(e, "fix_auto", 800, <<JsonStr(<<"h","a","s","_","c","o","r","r","e","c","t","i","o","n","s">>)>>)
    ELSE FallbackResult(e, "accept", 600, <<>>)

\* one attempt more before the fallback
AttemptOutcome_ExtraRetry(answer, n, e, f) ==
    IF ~AttemptRaises(answer)
    THEN [returned |-> TRUE, value |-> _validate_response(answer.json, e)]
    ELSE IF n <= max_retries - 1
    THEN [returned |-> FALSE, value |-> <<>>]
    ELSE [returned |-> TRUE, value |-> _fallback_decision(e, f)]

\* what one pass of the loop of lines 59-76 does with the reviewer's answer:
\* it returns the validated response, sleeps and tries again, or returns the
\* fallback decision
AttemptOutcome(answer, n, e, f) ==
    IF ~AttemptRaises(answer)
    THEN [returned |-> TRUE, value |-> _validate_response(answer.json, e)]
    ELSE IF n < max_retries - 1
    THEN [returned |-> FALSE, value |-> <<>>]
    ELSE [returned |-> TRUE, value |-> _fallback_decision(e, f)]

(***************************************************************************)
(* DecisionRouter (src/app/routing.py)                                     *)
(***************************************************************************)
\* line 12: options.get('confidence_threshold', 0.85)
confidence_threshold == 850

\* lines 103-111: the syntax issues named in the removal reason
SyntaxIssueFlags ==
    <<"missing_at", "multiple_at", "empty_parts", "local_too_long",
      "domain_too_long", "local_dot_boundaries", "domain_dot_boundaries",
      "local_invalid_chars">>

\* a reason text: what it says and the values formatted into it
Reason(text, values) == [text |-> text, values |-> values]

\* lines 94-139: the removal reason, or None
_check_removal_conditions(f, llm, exclude_role_accounts) ==
    IF ~f.syntax_valid /\ \E i \in 1..Len(SyntaxIssueFlags) : SyntaxIssueFlags[i] \in f.flags
    THEN Some(Reason("Invalid syntax",
                     SelectSeq(SyntaxIssueFlags, LAMBDA name : name \in f.flags)))
    ELSE IF "invalid_tld" \in f.flags THEN Some(Reason("Invalid TLD", <<>>))
    ELSE IF "idna_error" \in f.flags THEN Some(Reason("Domain encoding error", <<>>))
    ELSE IF "disposable_domain" \in f.flags THEN Some(Reason("Disposable domain", <<>>))
    ELSE IF exclude_role_accounts /\ "role_account" \in f.flags
    THEN Some(Reason("Role account (excluded by policy)", <<>>))
    ELSE IF "unicode_confusable" \in f.flags
    THEN Some(Reason("Dangerous Unicode confusables", <<>>))
    ELSE IF "test_email" \in f.flags /\ llm.confidence > 800
    THEN Some(Reason("Test/example email", <<>>))
    ELSE None

\* lines 141-161
_get_risky_flags(f) ==
    SelectSeq(<<"invalid_tld", "disposable_domain", "unicode_confusable",
                "domain_consecutive_dots", "local_consecutive_dots">>,
              LAMBDA name : name \in f.flags)

\* the decision dict of lines 29-35, 65-71 and 77-83
Removal(original_email, llm, reason) ==
    [action |-> "remove",
     output_email |-> original_email,
     confidence |-> llm.confidence,
     changed |-> FALSE,
     reason |-> reason]

\* the decision dict of lines 41-47, 52-58 and 86-92
Kept(action, original_email, output_email, llm, text) ==
    [action |-> action,
     output_email |-> output_email,
     confidence |-> llm.confidence,
     changed |-> output_email # original_email,
     reason |-> Reason(text, <<llm.confidence>>)]

\* line 40: suggested_fix or llm_result.get('normalized_email', normalized_email)
FixOutput(llm) ==
    IF ~IsNone(llm.suggested_fix) /\ Value(llm.suggested_fix).v # <<>>
    THEN Value(llm.suggested_fix).v
    ELSE llm.normalized_email.v

\* lines 38-92: the decision when nothing mandates removal
Route(original_email, normalized_email, llm, f) ==
    IF llm.action = "fix_auto" /\ llm.confidence >= confidence_threshold
    THEN Kept("fix", original_email, FixOutput(llm), llm, "LLM fix")
    ELSE IF llm.action = "accept"
    THEN Kept("accept", original_email, llm.normalized_email.v, llm, "LLM accept")
    ELSE IF llm.action = "suppress"
    THEN Removal(original_email, llm, Reason("LLM suppress", <<llm.confidence>>))
    ELSE IF /\ llm.action = "review"
            /\ llm.confidence < confidence_threshold
            /\ _get_risky_flags(f) # <<>>
    THEN Removal(original_email, llm,
                 Reason("Low confidence review with risks", _get_risky_flags(f)))
    ELSE Kept("accept", original_email, normalized_email, llm, "Conservative accept")

\* lines 15-92
decide(original_email, normalized_email, llm, f, exclude_role_accounts) ==
    IF ~IsNone(_check_removal_conditions(f, llm, exclude_role_accounts))
    THEN Removal(original_email, llm,
                 Value(_check_removal_conditions(f, llm, exclude_role_accounts)))
    ELSE Route(original_email, normalized_email, llm, f)

(***************************************************************************)
(* EmailValidationPipeline._process_sheet (src/app/pipeline.py) with the   *)
(* reviewer answering classify_email                                       *)
(***************************************************************************)
MaxSheetRows == 2

Str_Sheet1 == <<"S","h","e","e","t","1">>
Str_anna_company == <<"a","n","n","a","@","c","o","m","p","a","n","y",".","c","o","m">>

\* the cells of the email column; str(nan) is 'nan'
SheetCells ==
    { Str_anna_company,
      <<"a","n","n","a","@","c","o","m","p","a","n","y",".","c","o","n">>,
      <<" ","s","a","l","e","s","@","c","o","m","p","a","n","y",".","c","o","m">>,
      <<"a","n","n","a","@","g","m","i","a","l",".","c","o","m">>,
      <<"n","o","p","e","@","@","g","m","a","i","l",".","c","o","m">>,
      <<"t","e","s","t","1","@","c","o","m","p","a","n","y",".","c","o","m">>,
      <<"a","n",".",".","n","a","@","g","m","a","i","l",".","c","o","m">>,
      <<"a","n","n","a","@","U+0430","p","p","l","e",".","c","o","m">>,
      <<>>,
      <<"n","a","n">> }

Sheets == UNION {[1..n -> SheetCells] : n \in 1..MaxSheetRows}

\* a response with the two required fields
Answer(action, confidence) ==
    JsonDict([action |-> JsonStr(action), confidence |-> confidence])

LongNote == [i \in 1..121 |-> "n"]

\* What json.loads can return in lines 61-64: well-formed responses with
\* each action, then malformed and partly filled responses.
\* normalized_email and suggested_fix, where present, are strings.
ReviewerJson ==
    << JsonNull,
       JsonList(<<JsonStr(<<"a","c","c","e","p","t">>)>>),
       Answer(<<"a","c","c","e","p","t">>, JsonNum(950)),
       Answer(<<"f","i","x","_","a","u","t","o">>, JsonNum(950)),
       Answer(<<"f","i","x","_","a","u","t","o">>, JsonNum(500)),
       Answer(<<"r","e","v","i","e","w">>, JsonNum(950)),
       Answer(<<"r","e","v","i","e","w">>, JsonNum(500)),
       Answer(<<"s","u","p","p","r","e","s","s">>, JsonNum(950)),
       Answer(<<"d","e","l","e","t","e">>, JsonNum(900)),
       JsonDict([action |-> JsonNum(1000), confidence |-> JsonNum(900)]),
       JsonDict([confidence |-> JsonNum(900)]),
       JsonDict([action |-> JsonStr(<<"a","c","c","e","p","t">>)]),
       Answer(<<"a","c","c","e","p","t">>, JsonNum(1500)),
       Answer(<<"r","e","v","i","e","w">>, JsonNum(0 - 200)),
       Answer(<<"f","i","x","_","a","u","t","o">>, JsonStr(<<"h","i","g","h">>)),
       Answer(<<"a","c","c","e","p","t">>, JsonStr(<<"0",".","9">>)),
       Answer(<<"a","c","c","e","p","t">>, JsonNull),
       Answer(<<"s","u","p","p","r","e","s","s">>, JsonNaN),
       Answer(<<"a","c","c","e","p","t">>, JsonHuge),
       JsonDict([action |-> JsonStr(<<"f","i","x","_","a","u","t","o">>), confidence |-> JsonNum(900),
                 suggested_fix |-> JsonStr(Str_anna_company),
                 risk_reasons |-> JsonList(<<JsonStr(<<"t","y","p","o">>)>>),
                 notes |-> JsonStr(<<"f","i","x","e","d">>)]),
       JsonDict([action |-> JsonStr(<<"f","i","x","_","a","u","t","o">>), confidence |-> JsonNum(990),
                 input_email |-> JsonStr(Str_anna_company),
                 normalized_email |-> JsonStr(Str_anna_company),
                 suggested_fix |-> JsonStr(<<>>),
                 risk_reasons |-> JsonStr(<<"n","o","n","e">>),
                 notes |-> JsonStr(LongNote)]),
       JsonDict([action |-> JsonStr(<<"a","c","c","e","p","t">>), confidence |-> JsonNum(990),
                 normalized_email |-> JsonStr(<<"A","n","n","a","@","c","o","m","p","a","n","y",".","c","o","m">>),
                 suggested_fix |-> JsonNull]),
       JsonDict([action |-> JsonStr(<<"a","c","c","e","p","t">>), confidence |-> JsonNum(900),
                 notes |-> JsonNull]) >>

\* What the reviewer call can produce: an exception (an API error, or
\* content json.loads rejects), or parsed JSON
ReviewerAnswers ==
    <<[raises |-> TRUE, json |-> JsonNull]>>
    \o [k \in 1..Len(ReviewerJson) |-> [raises |-> FALSE, json |-> ReviewerJson[k]]]

\* lines 35-41
NewCounters ==
    [accepted |-> 0, fixed |-> 0, removed |-> 0, duplicates |-> 0,
     total_processed |-> 0]

SheetInit ==
    /\ pc = "next_row"
    /\ file_data \in Sheets
    /\ options \in [exclude_role_accounts : BOOLEAN, provider_aware_dedup : {TRUE}]
    /\ processed_rows = <<>>
    /\ processing = [changes |-> <<>>, rejected |-> <<>>, dropped |-> {}, updated |-> <<>>]
    /\ counters = NewCounters
    /\ email = <<>>
    /\ features = <<>>
    /\ normalized = <<>>
    /\ attempt = 0
    /\ llm_result = <<>>
    /\ reviewer_calls = 0
    /\ result = <<>>
    /\ decision = <<>>
    /\ records_report = <<>>
    /\ final_sheets = <<>>
    /\ entries = <<>>
    /\ dedupe_results = <<>>
    /\ cleaned_data = <<>>
    /\ final_data = <<>>
    /\ NormIdle
    /\ KeyIdle

\* the row the loop of line 127 is at, and its cell as line 128 reads it
RowIndex == Len(processed_rows) + 1
CellEmail == strip(file_data[RowIndex], Whitespace)
IsEmptyCell(e) == e \in {<<>>, <<"n","a","n">>, <<"N","o","n","e">>}

\* the loop goes to the next row, or the method returns
AfterRow == IF RowIndex = Len(file_data) THEN "sheet_done" ELSE "next_row"

\* lines 130-140: a row without an email is kept and skipped
SkipEmptyRow ==
    /\ pc = "next_row"
    /\ IsEmptyCell(CellEmail)
    /\ processed_rows' = Append(processed_rows,
          [sheet |-> Str_Sheet1,
           row_index |-> RowIndex - 1,
           original_email |-> CellEmail,
           processed_email |-> CellEmail,
           action |-> "skip_empty",
           confidence |-> 1000])
    /\ pc' = AfterRow
    /\ UNCHANGED <<email, options, result, decision, normVars, keyVars, file_data,
                   entries, processing, dedupe_results, cleaned_data, final_data,
                   records_report, final_sheets, sheetVars>>

\* lines 143-146 and lines 53-56 of classify_email: the features, the
\* normalized address and the request for the reviewer
ExtractAndNormalize ==
    /\ pc = "next_row"
    /\ ~IsEmptyCell(CellEmail)
    /\ email' = CellEmail
    /\ features' = extract_features(CellEmail)
    /\ normalized' = normalize_email(CellEmail, features')
    /\ attempt' = 0
    /\ reviewer_calls' = 0
    /\ llm_result' = <<>>
    /\ pc' = "classifying"
    /\ UNCHANGED <<options, result, decision, normVars, keyVars, pipeVars, recVars,
                   counters>>

\* lines 59-67: the reviewer is called and its response validates
ReviewerAnswersValid ==
    /\ pc = "classifying"
    /\ \E k \in 1..Len(ReviewerAnswers) :
          /\ AttemptOutcome(ReviewerAnswers[k], attempt, email, features).returned
          /\ ~AttemptRaises(ReviewerAnswers[k])
          /\ llm_result' =
                AttemptOutcome(ReviewerAnswers[k], attempt, email, features).value
    /\ reviewer_calls' = reviewer_calls + 1
    /\ pc' = "classified"
    /\ UNCHANGED <<email, options, result, decision, normVars, keyVars, pipeVars,
                   recVars, features, normalized, attempt, counters>>

\* lines 69-72: the call or the validation raises, classify_email sleeps and
\* tries again
AttemptFails ==
    /\ pc = "classifying"
    /\ \E k \in 1..Len(ReviewerAnswers) :
          ~AttemptOutcome(ReviewerAnswers[k], attempt, email, features).returned
    /\ reviewer_calls' = reviewer_calls + 1
    /\ attempt' = attempt + 1
    /\ UNCHANGED <<pc, email, options, result, decision, normVars, keyVars, pipeVars,
                   recVars, features, normalized, llm_result, counters>>

\* lines 69-76: the last attempt fails and the fallback decision is returned
LastAttemptFails ==
    /\ pc = "classifying"
    /\ \E k \in 1..Len(ReviewerAnswers) :
          /\ AttemptOutcome(ReviewerAnswers[k], attempt, email, features).returned
          /\ AttemptRaises(ReviewerAnswers[k])
          /\ llm_result' =
                AttemptOutcome(ReviewerAnswers[k], attempt, email, features).value
    /\ reviewer_calls' = reviewer_calls + 1
    /\ attempt' = attempt + 1
    /\ pc' = "classified"
    /\ UNCHANGED <<email, options, result, decision, normVars, keyVars, pipeVars,
                   recVars, features, normalized, counters>>

\* lines 155-163
ProcessedRow(idx, e, d, provider_aware) ==
    [sheet |-> Str_Sheet1,
     row_index |-> idx,
     original_email |-> e,
     processed_email |-> d.output_email,
     action |-> d.action,
     confidence |-> d.confidence,
     canonical_key |-> generate_canonical_key(d.output_email, provider_aware)]

\* lines 165-171
CountDecision(c, d) ==
    IF d.action = "accept" THEN [c EXCEPT !.accepted = @ + 1]
    ELSE IF d.action = "fix" THEN [c EXCEPT !.fixed = @ + 1]
    ELSE IF d.action = "remove" THEN [c EXCEPT !.removed = @ + 1]
    ELSE c

\* lines 173-198: changes, rejected and the cleaned copy of the sheet, held
\* as the rows dropped from it and the emails written into it
RecordDecision(p, idx, e, d) ==
    [changes |-> IF d.changed
                 THEN Append(p.changes,
                        [sheet |-> Str_Sheet1, row_index |-> idx,
                         original_email |-> e, new_email |-> d.output_email,
                         reason |-> d.reason, confidence |-> d.confidence])
                 ELSE p.changes,
     rejected |-> IF d.action = "remove"
                  THEN Append(p.rejected,
                         [sheet |-> Str_Sheet1, row_index |-> idx,
                          original_email |-> e, reason |-> d.reason,
                          confidence |-> d.confidence])
                  ELSE p.rejected,
     dropped |-> IF d.action = "remove" THEN p.dropped \cup {idx} ELSE p.dropped,
     updated |-> IF d.action = "remove" THEN p.updated
                 ELSE Append(p.updated, <<idx, d.output_email>>)]

\* lines 152-202: the router decides and the row is recorded; the locals of
\* the loop body end with the iteration
RouteDecision ==
    /\ pc = "classified"
    /\ decision' = decide(email, normalized, llm_result, features,
                          options.exclude_role_accounts)
    /\ processed_rows' = Append(processed_rows,
          ProcessedRow(RowIndex - 1, email, decision', options.provider_aware_dedup))
    /\ counters' = CountDecision(counters, decision')
    /\ processing' = RecordDecision(processing, RowIndex - 1, email, decision')
    /\ pc' = AfterRow
    /\ email' = <<>>
    /\ features' = <<>>
    /\ normalized' = <<>>
    /\ llm_result' = <<>>
    /\ attempt' = 0
    /\ reviewer_calls' = 0
    /\ UNCHANGED <<options, result, normVars, keyVars, file_data, entries,
                   dedupe_results, cleaned_data, final_data, records_report,
                   final_sheets>>

SheetNext ==
    \/ SkipEmptyRow
    \/ ExtractAndNormalize
    \/ ReviewerAnswersValid
    \/ AttemptFails
    \/ LastAttemptFails
    \/ RouteDecision

SpecSheet == SheetInit /\ [][SheetNext]_vars

\* a reviewer request returns or raises, and time.sleep returns: an attempt
\* of classify_email that has begun ends
SpecSheetFair ==
    SpecSheet /\ WF_vars(ReviewerAnswersValid \/ AttemptFails \/ LastAttemptFails)

(***************************************************************************)
(* Properties of classify_email and of the reviewer's place in the sheet   *)
(* pipeline, under SpecSheet                                               *)
(***************************************************************************)
\* C14: classify_email always returns a result whose action is one of
\* accept, fix_auto, review, suppress and whose confidence is in [0, 1],
\* whether the reviewer answers correctly, answers with a malformed
\* response or fails; when every attempt has failed the result is the
\* deterministic local fallback decision.
C14_ClassifyAlwaysValid ==
    pc = "classified" =>
        /\ llm_result.action \in {"accept", "fix_auto", "review", "suppress"}
        /\ llm_result.confidence >= 0
        /\ llm_result.confidence <= 1000
        /\ attempt = max_retries => llm_result = _fallback_decision(email, features)
        /\ attempt <= max_retries
        /\ reviewer_calls = IF attempt = max_retries THEN attempt ELSE attempt + 1

\* the reviewer failed three times on an address with a known domain typo
\* and the fallback decision proposes the fix
C14_FallbackAfterFailures ==
    /\ pc = "classified"
    /\ attempt = max_retries
    /\ reviewer_calls = max_retries
    /\ features.suggested_corrections # <<>>
    /\ llm_result.action = "fix_auto"
    /\ llm_result.confidence = 800

\* the action of the deterministic engine for the address of the row
DeterministicAction ==
    validate_email_deterministic(email, options.exclude_role_accounts,
                                 DefaultRefs).action

\* C15: the reviewer is consulted only for records whose deterministic
\* action is review: no reviewer call is made for a record the
\* deterministic rules accept, fix or suppress.
C15_ReviewerOnlyForReview ==
    (pc \in {"classifying", "classified"} /\ reviewer_calls > 0)
        => DeterministicAction = "review"

(***************************************************************************)
(* Properties of the near-duplicate report, under SpecRecords              *)
(***************************************************************************)
\* t is s changed by at most k insertions, deletions or substitutions of
\* one character
RECURSIVE WithinEdits(_, _, _)
WithinEdits(s, t, k) ==
    IF k < 0 THEN FALSE
    ELSE IF s = <<>> THEN Len(t) <= k
    ELSE IF t = <<>> THEN Len(s) <= k
    ELSE IF Head(s) = Head(t) THEN WithinEdits(Tail(s), Tail(t), k)
    ELSE \/ WithinEdits(Tail(s), t, k - 1)
         \/ WithinEdits(s, Tail(t), k - 1)
         \/ WithinEdits(Tail(s), Tail(t), k - 1)

\* edit distance <= 2 and length difference <= 2, letter case apart
WithinBudget(s, t) ==
    /\ WithinEdits(lower(s), lower(t), 2)
    /\ Abs(Len(s) - Len(t)) <= 2

HasAddress(i) == Considered(i) /\ contains(processed_rows[i].processed_email, "@")

RowLocal(i) == rsplit_at(processed_rows[i].processed_email).local

RowDomain(i) == rsplit_at(processed_rows[i].processed_email).domain

SameDomain(i, j) == lower(RowDomain(i)) = lower(RowDomain(j))

RowPlace(i) ==
    [sheet |-> processed_rows[i].sheet, row_index |-> processed_rows[i].row_index]

\* the number of reports of the rows i and j, in either order
ReportedTimes(i, j) ==
    Cardinality({k \in 1..Len(records_report.near_duplicates) :
        LET r == records_report.near_duplicates[k]
        IN  {r.row1, r.row2} = {RowPlace(i), RowPlace(j)}})

C22_SameDomainLocalBudget ==
    pc = "records_deduplicated" =>
        \A i \in 1..Len(processed_rows) :
            \A j \in (i + 1)..Len(processed_rows) :
                (HasAddress(i) /\ HasAddress(j) /\ SameDomain(i, j) /\ Reported(i, j))
                    => WithinBudget(RowLocal(i), RowLocal(j))

(***************************************************************************)
(* Properties of the local-part rules of the engine, under SpecValidate    *)
(***************************************************************************)
\* the suggestion comes from step 3, the collapse of the local double dot
CollapseSuggested ==
    /\ ~IsNone(result.suggested_fix)
    /\ \E k \in 1..Len(result.notes) :
          result.notes[k] = "Suggested fix (local_collapse)"

\* the local part of the suggested address
FixLocal == BeforeFirst(Value(result.suggested_fix), "@")

\* C23: the local double-dot collapse is proposed as the correction only
\* when no domain-level fix (TLD typo or whole-domain typo) was found and
\* the collapsed local part passes validate_local_part with no defect; a
\* record whose collapsed local part is still invalid never gets fix_auto
\* from the collapse.
C23_CollapseOnlyWhenValid ==
    (Validated /\ CollapseSuggested) =>
        /\ IsNone(suggest_tld_fix(AfterFirst(Value(result.suggested_fix), "@")))
        /\ IsNone(suggest_exact_domain_fix(AfterFirst(Value(result.suggested_fix), "@")))
        /\ validate_local_part(FixLocal) = {}

\* C24: local-part validation enforces the length limit: every local part
\* longer than 64 characters is reported as a defect by
\* validate_local_part, so an address with such a local part and no
\* applicable correction is never accepted.
C24_LocalLengthLimit ==
    (Validated /\ count(NormalizedInput, "@") = 1 /\ Len(InputLocal) > 64) =>
        /\ validate_local_part(InputLocal) # {}
        /\ IsNone(result.suggested_fix) => result.action # "accept"

(***************************************************************************)
(* Properties of the cleaned sheets and of the counters, under             *)
(* SpecPipeline                                                            *)
(***************************************************************************)
\* the entry holds an address that was neither suppressed nor marked as a
\* duplicate: a keeper, or an address that is in no group
KeptEntry(e) == ~is_empty(e) /\ e.action \notin {"duplicate", "remove"}

\* the cell of the entry in the sheets
CellOf(data, e) ==
    LET s == CHOOSE s \in 1..Len(data) : data[s].name = e.sheet
    IN  data[s].rows[e.row_number][e.col_number]

\* C25: after the full pipeline (process entries, deduplicate, write
\* cleaned emails, blank duplicate rows) the table cell of every keeper and
\* of every non-duplicate, non-suppressed entry still holds its cleaned
\* email: blanking a duplicate never erases a keeper, also when a row
\* holds a duplicate in one email column and a keeper in another.
C25_KeeperCellsSurvive ==
    pc = "blanked" =>
        \A k \in 1..Len(entries) :
            KeptEntry(entries[k]) => CellOf(final_data, entries[k]) = entries[k].cleaned

\* C26: whenever validate_email_deterministic returns fix_auto, the
\* suggested fix differs from the normalized input address: no record is
\* reported as automatically fixed with an output identical to its
\* normalized input, also when the fuzzy matcher meets an input domain
\* that is in the common-domain list but fails the TLD allow-list.
C26_FixDiffersFromInput ==
    (Validated /\ result.action = "fix_auto") =>
        /\ ~IsNone(result.suggested_fix)
        /\ Value(result.suggested_fix) # result.normalized_email
        /\ Value(result.suggested_fix) # NormalizedInput

(***************************************************************************)
(* Properties of _apply_deduplication, under SpecRecords                   *)
(***************************************************************************)
\* the row is in the sheets _apply_deduplication returned
Survives(ref) ==
    \E s \in 1..Len(final_sheets) :
        /\ final_sheets[s].name = ref.sheet
        /\ \E k \in 1..Len(final_sheets[s].index) :
              final_sheets[s].index[k] = ref.row_index

\* C27: in the sheet pipeline that removes rows, after _apply_deduplication
\* every duplicate group has exactly one surviving row in the cleaned
\* sheets: the keeper is kept and every row listed in the group's
\* 'duplicates' is removed.
C27_OneSurvivorPerGroup ==
    pc = "deduplication_applied" =>
        \A g \in 1..Len(records_report.duplicates_report) :
            /\ Survives(records_report.duplicates_report[g].keeper)
            /\ \A k \in 1..Len(records_report.duplicates_report[g].duplicates) :
                  ~Survives(records_report.duplicates_report[g].duplicates[k])

\* C28: after process_email_entries over any list of entries the counters
\* satisfy accepted + fixed + removed = total_processed, and
\* total_processed is the number of non-empty entries.
C28_CountersAddUp ==
    pc \in {"processed", "deduplicated", "updated", "blanked"} =>
        /\ processing.results.accepted + processing.results.fixed
               + processing.results.removed = processing.results.total_processed
        /\ processing.results.total_processed = non_empty_entries(entries)

(***************************************************************************)
(* Letter case in the canonical key, under SpecKey                         *)
(***************************************************************************)
\* C29: the canonical key is case-insensitive: two addresses that differ
\* only in letter case (in the local part or in the domain) get the same
\* canonical key for every domain, Gmail-equivalent domains included, in
\* both provider-aware modes.
C29_KeyCaseInsensitive ==
    pc \in {"keyed", "compared"} =>
        canonical_key(lower(email), options.provider_aware) = keys.base

(***************************************************************************)
(* The retry protocol of classify_email, under SpecSheetFair               *)
(***************************************************************************)
\* llm_result is the validated form of a response the reviewer can give
ValidatedAnswer ==
    \E k \in 1..Len(ReviewerAnswers) :
        IF AttemptRaises(ReviewerAnswers[k]) THEN FALSE
        ELSE llm_result = _validate_response(ReviewerAnswers[k].json, email)

\* what holds of the calls made for the current email
RetryBounds ==
    /\ reviewer_calls <= max_retries
    /\ pc = "classifying" => (reviewer_calls = attempt /\ attempt < max_retries)
    /\ pc = "classified" =>
          IF attempt = max_retries
          THEN /\ reviewer_calls = max_retries
               /\ llm_result = _fallback_decision(email, features)
          ELSE /\ reviewer_calls = attempt + 1
               /\ ValidatedAnswer

\* a reviewer call is made only while classify_email runs, one at a time
CallsOnlyWhileClassifying ==
    reviewer_calls' > reviewer_calls =>
        (pc = "classifying" /\ reviewer_calls' = reviewer_calls + 1)

\* C30: reviewer retry protocol: for one email, classify_email makes at
\* most max_retries (3) reviewer calls, stops calling after the first
\* attempt whose response validates, returns the fallback decision only
\* after max_retries consecutive failed attempts, and always eventually
\* returns.
C30_RetryProtocol ==
    /\ []RetryBounds
    /\ [][CallsOnlyWhileClassifying]_vars
    /\ (pc = "classifying") ~> (pc = "classified")

\* the reviewer failed once and then gave a response that validates: two
\* calls were made and no third
C30_SecondAttemptValid ==
    /\ pc = "classified"
    /\ attempt = 1
    /\ reviewer_calls = 2
    /\ ValidatedAnswer
    /\ llm_result # _fallback_decision(email, features)

=============================================================================
